---- MODULE Spec2Model ----
(***************************************************************************)
(* Verification model of the jeremychia GitHub contribution tools:         *)
(*   - the Playwright browser scraper (github_pr_scraper/scraper.py),      *)
(*   - the REST client's rate-limit pacing (pr_analyser/github_client.py), *)
(*   - the token manager (pr_analyser/auth.py),                            *)
(*   - the GitHub-CLI analyzer (github_pr_scraper/cli_analyzer.py),        *)
(*   - the CSV enhancement script (enhance_pr_data.py),                    *)
(*   - the analyze commands of the CLI scraper and of the PAT tool,        *)
(*   - the exporters' file naming and the metric computations.             *)
(* Each component has its own specification over its own variables; the    *)
(* variables of the other components stay at their initial values.         *)
(***************************************************************************)
EXTENDS Integers, Sequences, FiniteSets, TLC

\* ------------------------------------------------------------------ bounds
\* Largest number of PR URLs the search phase of the browser scraper finds.
MaxUrls == 3
\* Largest configured concurrent_pages.
MaxConcurrent == 2
\* Largest configured requests_per_hour.
MaxRate == 3
\* Largest number of repositories an organization listing returns.
MaxRepos == 2
\* Largest number of PRs (or commits) one repository listing returns.
MaxItems == 2
\* The clock advances in steps of ClockStep seconds up to MaxClock.
ClockStep == 1800
MaxClock == 7200
\* Distinct tokens 1..MaxTokens the user may have stored or may type.
MaxTokens == 2
\* Largest number of successive get_auth_token calls.
MaxAuthCalls == 2
\* Largest number of repositories in repo_list of the CLI analyzer.
MaxCliRepos == 2
\* Largest number of PRs one CLI query returns.
MaxPerQuery == 2
\* Largest max_prs passed to the CLI analyzer.
MaxCap == 2
\* Largest number of rows in the input CSV of the enhancement script.
MaxRows == 2
\* Titles and dates of CSV rows and of CLI answers are 1..MaxText.
MaxText == 2

\* Largest number of exports into one output directory.
MaxExports == 3
\* The wall clock of the exports runs from 0 to MaxTicks ticks, with
\* TicksPerSecond ticks in a second.
MaxTicks == 3
TicksPerSecond == 2
\* The users 1..MaxPatUsers the PAT tool may analyse.
MaxPatUsers == 2

\* Repositories 1..MaxMetricRepos of an analysis result.
MaxMetricRepos == 2
\* Largest number of PRs, and of commits, of an analysis result.
MaxMetricRows == 2
\* Largest number of commits when the commit dates vary, which lie up to
\* MaxAge days before today.
MaxStreakCommits == 3
MaxAge == 3

\* Largest number of path segments of a URL given to extract_repo_from_url.
MaxSegments == 5

\* ------------------------------------------------------ program constants
\* The length of the pacing window in seconds.
Hour == 3600
\* HTTP status codes _validate_token distinguishes; Other stands for any
\* remaining status.
StatusOk == 200
StatusUnauthorized == 401
StatusOther == 500
\* The --limit of the global search when max_prs is absent.
DefaultSearchLimit == 100

\* ------------------------------------------------------------- variables
VARIABLES
    \* --- browser scraper (scraper.py)
    user_data_dir,     \* TRUE when a persistent profile directory is configured
    concurrent_pages,  \* self.concurrent_pages
    max_prs,           \* config.max_prs; 0 stands for None (both are falsy)
    engine,            \* self.playwright: "none" | "started" | "stopped"
    browser,           \* self.browser:    "none" | "open" | "closed"
    context,           \* self.context:    "none" | "open" | "closed"
    released,          \* order in which the resources were released
    spc,               \* position of the `async with scraper:` run
    gpc,               \* position inside get_user_prs
    pr_urls,           \* URLs collected by the search (URL k is the number k)
    urls_defined,      \* 'pr_urls' in locals() of get_user_prs
    sem,               \* value of the asyncio.Semaphore
    tpc,               \* position of each process_pr task
    result,            \* what each process_pr task returned
    pages,             \* pages currently open in the context
    opened,            \* the pages opened so far (0 is the search page)
    all_prs,           \* ScrapingResult.prs
    errors,            \* ScrapingResult.errors
    \* --- REST client (github_client.py)
    requests_per_hour, \* self.requests_per_hour
    requests_made,     \* self.requests_made
    last_reset,        \* self.last_reset (seconds)
    now,               \* time.time() (seconds)
    cpc,               \* position of the analysis run inside the client
    repositories,      \* the repositories returned by the organization listing
    ri,                \* index of the repository the current loop is at
    items_left,        \* PRs / commits of the current listing not yet visited
    client_prs,        \* all_prs of get_user_pull_requests (repository of each)
    client_commits,    \* all_commits of get_user_commits (repository of each)
    failed_repos,      \* repositories whose PR fetch raised GithubException
    pr_fetched,        \* repositories the PR loop has reached
    slept,             \* seconds the latest _handle_rate_limit call slept
    paced,             \* a pacing step ran since the last API call
    unpaced_calls,     \* API calls issued with no pacing step before them
    calls_in_window,   \* API calls issued since last_reset was last set
    \* --- token manager (auth.py); a token is a number, 0 is None or ""
    keyring,           \* the credential store's entry for the user
    force_reauth,      \* argument of get_auth_token
    apc,               \* position inside get_auth_token
    auth_calls,        \* calls of get_auth_token made so far
    initial_stored,    \* the keyring entry when the call began
    retrieved,         \* what get_auth_token's own get_stored_token returned
    flow_started,      \* authenticate_interactive was entered
    stored_at_flow,    \* the keyring entry when authenticate_interactive began
    stored_token,      \* local stored_token of authenticate_interactive
    questions,         \* questions put to the user (Confirm.ask, Prompt.ask)
    prompted,          \* the token prompt was shown
    entered,           \* the token typed at the prompt
    validations,       \* calls of _validate_token (requests to the API)
    accepted,          \* tokens for which _validate_token returned True
    store_calls,       \* tokens store_token was called with
    agreed,            \* the user agreed to persist the token
    ret,               \* return value of get_auth_token
    ret_source,        \* "pending" | "stored" | "fresh" | "absent"
    \* --- GitHub CLI analyzer (cli_analyzer.py); a PR is a record of its
    \*     repository and its created_at
    strategy,          \* "repos" | "org" | "global": which arguments are given
    repo_list,         \* repo_list of get_user_prs
    cli_max_prs,       \* max_prs; 0 stands for None (both are falsy)
    include_closed,    \* argument include_closed
    include_merged,    \* argument include_merged
    date_from,         \* argument date_from; 0 stands for None
    date_to,           \* argument date_to; 0 stands for None
    date_naive,        \* the bounds are timezone-naive datetimes
    kpc,               \* position inside get_user_prs
    kri,               \* index of the repository being fetched
    ksi,               \* index in the state list of the query to issue next
    acc,               \* all_prs while the loop runs
    cli_result,        \* the list get_user_prs returned
    query_log,         \* the `gh pr list` queries of the latest repository
    visited,           \* per repository fetched: its name and len(all_prs) before
    cli_failed,        \* the repositories whose fetch failed
    \* --- enhancement script (enhance_pr_data.py)
    rows,              \* the rows of the input CSV
    epc,               \* position inside enhance_pr_data
    eidx,              \* index of the row the loop is at
    fetch_log,         \* per get_pr_details call: TRUE when it gave no details
    enhanced_prs,      \* enhanced_prs
    json_prs,          \* the 'prs' list written to the JSON file
    json_total,        \* metadata.total_prs written to the JSON file
    csv_rows,          \* number of data rows written to the CSV file
    \* --- analyze / quick-analysis commands of the CLI scraper (cli.py)
    run_cmd,           \* "analyze" | "quick"
    run_from,          \* --from: "none" | "valid" | "invalid"
    run_to,            \* --to:   "none" | "valid" | "invalid"
    out_format,        \* output.default_format: "csv" | "json" | "both"
    gen_report,        \* output.generate_report
    include_summary,   \* output.include_summary
    rpc,               \* position inside the command
    gh_check,          \* "pending" | "ready" | "missing" | "unauthenticated"
    exit_code,         \* exit status of the process; -1 while it runs
    console,           \* messages printed to the console, in order
    fetch_calls,       \* bounds handed to each get_user_prs call
    files,             \* export files written
    export_raised,     \* the export step whose write raised; "none" if none
    \* --- analyze command of the PAT tool (commands/analyze.py, core.py)
    pat_user,          \* a user is given by --user or the configuration
    pat_org,           \* an organization is given by --org or the configuration
    pat_from,          \* --from: "none" | "valid" | "invalid"
    pat_to,            \* --to: "none" | "valid" | "invalid"
    pat_formats,       \* the --export formats, in order
    pat_visualize,     \* output.visualizations
    ppc,               \* position inside the command
    pat_exit,          \* exit status of the process; -1 while it runs
    pat_console,       \* messages printed to the console, in order
    pat_warnings,      \* warnings written to the log
    pat_trace,         \* the steps performed so far, in order
    pat_bounds,        \* date bounds handed to each fetch of PRs or commits
    pat_fi,            \* index of the export format the loop is at
    pat_files,         \* export formats for which files were written
    pat_charts,        \* the charts create_all_visualizations returned
    \* --- default export filenames (both exporter.py files)
    xnow,              \* the wall clock, in ticks
    xcount,            \* number of exports made so far
    xfiles,            \* the output directory: for each path the export that wrote it
    overwritten,       \* the exports whose file a later export replaced
    \* --- AnalysisResult properties and DataAnalyzer metrics (models.py, analyzer.py)
    m_prs,             \* result.pull_requests
    m_commits,         \* result.commits; age is the number of days before today
    props,             \* the AnalysisResult properties, once they are read
    metrics,           \* the ContributionMetrics, once they are computed
    breakdown,         \* the repository breakdown, once it is computed
    \* --- GitHubPRData.complexity_score (github_pr_scraper/models.py)
    g_files,           \* file_analysis.total_files_changed
    g_additions,       \* additions
    g_deletions,       \* deletions
    g_cycles,          \* review_metrics.review_cycles
    g_time,            \* time_metrics.time_open_hours, in hundredths of an hour
    g_score,           \* complexity_score in hundredths, once it is read
    \* --- extract_repo_from_url on its own (enhance_pr_data.py)
    u_url,             \* the URL passed to extract_repo_from_url
    u_repo,            \* the value returned, once the function was called
    \* --- GitHubPRData.status and the summary counts (models.py, exporter.py)
    s_source,          \* "cli" or "browser": where the PR records come from
    s_raw,             \* per PR what the source reports: its state text and mergedAt
    s_prs,             \* the GitHubPRData records, once they are built
    s_stats            \* calculate_summary_stats of the records, once it is computed

scraperVars == <<user_data_dir, concurrent_pages, max_prs, engine, browser,
                 context, released, spc, gpc, pr_urls, urls_defined, sem, tpc,
                 result, pages, opened, all_prs, errors>>

clientVars == <<requests_per_hour, requests_made, last_reset, now, cpc,
                repositories, ri, items_left, client_prs, client_commits,
                failed_repos, pr_fetched, slept, paced, unpaced_calls,
                calls_in_window>>

authVars == <<keyring, force_reauth, apc, auth_calls, initial_stored,
              retrieved, flow_started, stored_at_flow, stored_token, questions,
              prompted, entered, validations, accepted, store_calls, agreed,
              ret, ret_source>>

cliVars == <<strategy, repo_list, cli_max_prs, include_closed, include_merged,
             date_from, date_to, date_naive, kpc, kri, ksi, acc, cli_result,
             query_log, visited, cli_failed>>

enhanceVars == <<rows, epc, eidx, fetch_log, enhanced_prs, json_prs,
                 json_total, csv_rows>>

runVars == <<run_cmd, run_from, run_to, out_format, gen_report,
             include_summary, rpc, gh_check, exit_code, console, fetch_calls,
             files, export_raised>>

patVars == <<pat_user, pat_org, pat_from, pat_to, pat_formats,
             pat_visualize, ppc, pat_exit, pat_console, pat_warnings,
             pat_trace, pat_bounds, pat_fi, pat_files, pat_charts>>

exportVars == <<xnow, xcount, xfiles, overwritten>>

metricsVars == <<m_prs, m_commits, props, metrics, breakdown>>

scoreVars == <<g_files, g_additions, g_deletions, g_cycles, g_time,
               g_score>>

urlVars == <<u_url, u_repo>>

statusVars == <<s_source, s_raw, s_prs, s_stats>>

\* The command-level components.
toolVars == <<runVars, patVars, exportVars, metricsVars, scoreVars, urlVars, statusVars>>

vars == <<scraperVars, clientVars, authVars, cliVars, enhanceVars, toolVars>>

\* The variables each component leaves alone.
nonScraperVars == <<clientVars, authVars, cliVars, enhanceVars, toolVars>>
nonClientVars == <<scraperVars, authVars, cliVars, enhanceVars, toolVars>>
nonAuthVars == <<scraperVars, clientVars, cliVars, enhanceVars, toolVars>>
nonCliVars == <<scraperVars, clientVars, authVars, enhanceVars, toolVars>>
nonEnhanceVars == <<scraperVars, clientVars, authVars, cliVars, toolVars>>
libVars == <<scraperVars, clientVars, authVars, cliVars, enhanceVars>>
nonRunVars == <<libVars, patVars, exportVars, metricsVars, scoreVars, urlVars, statusVars>>
nonPatVars == <<libVars, runVars, exportVars, metricsVars, scoreVars, urlVars, statusVars>>
nonExportVars == <<libVars, runVars, patVars, metricsVars, scoreVars, urlVars, statusVars>>
nonMetricsVars == <<libVars, runVars, patVars, exportVars, scoreVars, urlVars, statusVars>>
nonScoreVars == <<libVars, runVars, patVars, exportVars, metricsVars, urlVars, statusVars>>
nonUrlVars == <<libVars, runVars, patVars, exportVars, metricsVars, scoreVars, statusVars>>
nonStatusVars == <<libVars, runVars, patVars, exportVars, metricsVars, scoreVars, urlVars>>

\* ------------------------------------------- components that do not run
\* The browser scraper before any scraper object exists.
ScraperIdle ==
    /\ user_data_dir = FALSE
    /\ concurrent_pages = 1
    /\ max_prs = 0
    /\ engine = "none"
    /\ browser = "none"
    /\ context = "none"
    /\ released = <<>>
    /\ spc = "idle"
    /\ gpc = "idle"
    /\ pr_urls = <<>>
    /\ urls_defined = FALSE
    /\ sem = 0
    /\ tpc = <<>>
    /\ result = <<>>
    /\ pages = {}
    /\ opened = {}
    /\ all_prs = {}
    /\ errors = <<>>

\* The REST client before any client object exists.
ClientIdle ==
    /\ requests_per_hour = 1
    /\ requests_made = 0
    /\ last_reset = 0
    /\ now = 0
    /\ cpc = "idle"
    /\ repositories = <<>>
    /\ ri = 0
    /\ items_left = 0
    /\ client_prs = <<>>
    /\ client_commits = <<>>
    /\ failed_repos = {}
    /\ pr_fetched = {}
    /\ slept = 0
    /\ paced = FALSE
    /\ unpaced_calls = 0
    /\ calls_in_window = 0

\* The token manager before get_auth_token is called.
AuthIdle ==
    /\ keyring = 0
    /\ force_reauth = FALSE
    /\ apc = "idle"
    /\ auth_calls = 0
    /\ initial_stored = 0
    /\ retrieved = 0
    /\ flow_started = FALSE
    /\ stored_at_flow = 0
    /\ stored_token = 0
    /\ questions = 0
    /\ prompted = FALSE
    /\ entered = 0
    /\ validations = 0
    /\ accepted = {}
    /\ store_calls = {}
    /\ agreed = FALSE
    /\ ret = 0
    /\ ret_source = "pending"

\* The CLI analyzer before get_user_prs is called.
CliIdle ==
    /\ strategy = "global"
    /\ repo_list = <<>>
    /\ cli_max_prs = 0
    /\ include_closed = TRUE
    /\ include_merged = TRUE
    /\ date_from = 0
    /\ date_to = 0
    /\ date_naive = FALSE
    /\ kpc = "idle"
    /\ kri = 0
    /\ ksi = 0
    /\ acc = <<>>
    /\ cli_result = <<>>
    /\ query_log = <<>>
    /\ visited = <<>>
    /\ cli_failed = {}

\* The enhancement script before it runs.
EnhanceIdle ==
    /\ rows = <<>>
    /\ epc = "idle"
    /\ eidx = 0
    /\ fetch_log = <<>>
    /\ enhanced_prs = <<>>
    /\ json_prs = <<>>
    /\ json_total = 0
    /\ csv_rows = 0

\* The CLI scraper's command before it is invoked.
RunIdle ==
    /\ run_cmd = "analyze"
    /\ run_from = "none"
    /\ run_to = "none"
    /\ out_format = "csv"
    /\ gen_report = FALSE
    /\ include_summary = FALSE
    /\ rpc = "idle"
    /\ gh_check = "pending"
    /\ exit_code = -1
    /\ console = <<>>
    /\ fetch_calls = <<>>
    /\ files = {}
    /\ export_raised = "none"

\* The PAT tool's analyze command before it is invoked.
PatIdle ==
    /\ pat_user = FALSE
    /\ pat_org = FALSE
    /\ pat_from = "none"
    /\ pat_to = "none"
    /\ pat_formats = <<>>
    /\ pat_visualize = FALSE
    /\ ppc = "idle"
    /\ pat_exit = -1
    /\ pat_console = <<>>
    /\ pat_warnings = <<>>
    /\ pat_trace = <<>>
    /\ pat_bounds = <<>>
    /\ pat_fi = 0
    /\ pat_files = {}
    /\ pat_charts = <<>>

\* The output directory before any export.
ExportIdle ==
    /\ xnow = 0
    /\ xcount = 0
    /\ xfiles = {}
    /\ overwritten = {}

\* No analysis result exists.
MetricsIdle ==
    /\ m_prs = <<>>
    /\ m_commits = <<>>
    /\ props = [computed |-> FALSE]
    /\ metrics = [computed |-> FALSE]
    /\ breakdown = [computed |-> FALSE]

\* No PR record exists.
ScoreIdle ==
    /\ g_files = 0
    /\ g_additions = 0
    /\ g_deletions = 0
    /\ g_cycles = 0
    /\ g_time = [some |-> FALSE, value |-> 0]
    /\ g_score = [computed |-> FALSE]

\* extract_repo_from_url before it is called.
UrlIdle ==
    /\ u_url = [host |-> "", segs |-> <<>>]
    /\ u_repo = [computed |-> FALSE]

\* No PR record has been converted.
StatusIdle ==
    /\ s_source = "cli"
    /\ s_raw = <<>>
    /\ s_prs = [computed |-> FALSE]
    /\ s_stats = [computed |-> FALSE]

\* No command runs.
ToolsIdle == RunIdle /\ PatIdle /\ ExportIdle /\ MetricsIdle /\ ScoreIdle /\ UrlIdle /\ StatusIdle

\* None of the library components runs.
LibIdle == ScraperIdle /\ ClientIdle /\ AuthIdle /\ CliIdle /\ EnhanceIdle

\* ------------------------------------------------------------- helpers
Range(s) == {s[k] : k \in 1..Len(s)}

\* The process_pr tasks handed to gather (none before the search returned).
Tasks == 1..Len(tpc)

\* ===================================================================
\* Browser scraper
\* ===================================================================

\* GitHubPRScraper.__init__ followed by the start of `async with`.
ScraperStart ==
    /\ user_data_dir \in BOOLEAN
    /\ concurrent_pages \in 1..MaxConcurrent
    /\ max_prs \in 0..MaxUrls
    /\ engine = "none"
    /\ browser = "none"
    /\ context = "none"
    /\ released = <<>>
    /\ spc = "aenter_start"
    /\ gpc = "idle"
    /\ pr_urls = <<>>
    /\ urls_defined = FALSE
    /\ sem = 0
    /\ tpc = <<>>
    /\ result = <<>>
    /\ pages = {}
    /\ opened = {}
    /\ all_prs = {}
    /\ errors = <<>>

InitScraper ==
    ScraperStart /\ ClientIdle /\ AuthIdle /\ CliIdle /\ EnhanceIdle
                 /\ ToolsIdle

\* --- __aenter__ ------------------------------------------------------

\* self.playwright = await async_playwright().start()
AenterStart(ok) ==
    /\ spc = "aenter_start"
    /\ IF ok
          THEN /\ engine' = "started"
               /\ spc' = "aenter_launch"
          ELSE /\ engine' = engine
               /\ spc' = "raised"
    /\ UNCHANGED <<user_data_dir, concurrent_pages, max_prs, browser, context,
                   released, gpc, pr_urls, urls_defined, sem, tpc, result,
                   pages, opened, all_prs, errors>>
    /\ UNCHANGED nonScraperVars

\* launch_persistent_context (profile directory given) or chromium.launch.
\* An exception leaves __aenter__: the with-body and __aexit__ never run.
AenterLaunch(ok) ==
    /\ spc = "aenter_launch"
    /\ IF ~ok
          THEN /\ spc' = "raised"
               /\ UNCHANGED <<browser, context>>
          ELSE IF user_data_dir
                  THEN /\ context' = "open"
                       /\ browser' = "none"
                       /\ spc' = "body"
                  ELSE /\ browser' = "open"
                       /\ context' = context
                       /\ spc' = "aenter_context"
    /\ UNCHANGED <<user_data_dir, concurrent_pages, max_prs, engine,
                   released, gpc, pr_urls, urls_defined, sem, tpc, result,
                   pages, opened, all_prs, errors>>
    /\ UNCHANGED nonScraperVars

\* self.context = await self.browser.new_context()
AenterContext(ok) ==
    /\ spc = "aenter_context"
    /\ IF ok
          THEN /\ context' = "open"
               /\ spc' = "body"
          ELSE /\ context' = context
               /\ spc' = "raised"
    /\ UNCHANGED <<user_data_dir, concurrent_pages, max_prs, engine, browser,
                   released, gpc, pr_urls, urls_defined, sem, tpc, result,
                   pages, opened, all_prs, errors>>
    /\ UNCHANGED nonScraperVars

\* --- get_user_prs: the search phase ----------------------------------

\* get_user_prs is called in the with-body; _get_pr_urls_from_search opens
\* its page.  A failing new_page raises into get_user_prs' outer handler.
SearchOpen(ok) ==
    /\ spc = "body"
    /\ gpc = "idle"
    /\ IF ok
          THEN /\ pages' = pages \cup {0}
               /\ opened' = opened \cup {0}
               /\ gpc' = "searching"
               /\ errors' = errors
          ELSE /\ pages' = pages
               /\ opened' = opened
               /\ gpc' = "returned"
               /\ errors' = Append(errors, [kind |-> "outer", url |-> 0])
    /\ UNCHANGED <<user_data_dir, concurrent_pages, max_prs, engine, browser,
                   context, released, spc, pr_urls, urls_defined, sem, tpc,
                   result, all_prs>>
    /\ UNCHANGED nonScraperVars

\* One PR link of a result page is appended; reaching max_prs returns at
\* once (through the finally that closes the page).
SearchFound ==
    /\ gpc = "searching"
    /\ Len(pr_urls) < MaxUrls
    /\ pr_urls' = Append(pr_urls, Len(pr_urls) + 1)
    /\ gpc' = IF max_prs # 0 /\ Len(pr_urls') >= max_prs
                 THEN "search_closing"
                 ELSE "searching"
    /\ UNCHANGED <<user_data_dir, concurrent_pages, max_prs, engine, browser,
                   context, released, spc, urls_defined, sem, tpc, result,
                   pages, opened, all_prs, errors>>
    /\ UNCHANGED nonScraperVars

\* No links on the page, or no next-page control: the loop breaks.
SearchEnd ==
    /\ gpc = "searching"
    /\ gpc' = "search_closing"
    /\ UNCHANGED <<user_data_dir, concurrent_pages, max_prs, engine, browser,
                   context, released, spc, pr_urls, urls_defined, sem, tpc,
                   result, pages, opened, all_prs, errors>>
    /\ UNCHANGED nonScraperVars

\* goto / wait_for_selector / query raises inside the try.
SearchFail ==
    /\ gpc = "searching"
    /\ gpc' = "search_closing_exc"
    /\ UNCHANGED <<user_data_dir, concurrent_pages, max_prs, engine, browser,
                   context, released, spc, pr_urls, urls_defined, sem, tpc,
                   result, pages, opened, all_prs, errors>>
    /\ UNCHANGED nonScraperVars

\* finally: await page.close().  On the normal path the URL list is bound
\* to pr_urls of get_user_prs, the semaphore is created and one process_pr
\* coroutine per URL is handed to gather.  On the exceptional path (or when
\* close itself raises) the outer handler records str(e).
SearchClose(ok) ==
    /\ gpc \in {"search_closing", "search_closing_exc"}
    /\ pages' = pages \ {0}
    /\ IF gpc = "search_closing" /\ ok
          THEN /\ urls_defined' = TRUE
               /\ sem' = concurrent_pages
               /\ tpc' = [k \in 1..Len(pr_urls) |-> "pending"]
               /\ result' = [k \in 1..Len(pr_urls) |-> "unset"]
               /\ gpc' = "gathering"
               /\ UNCHANGED <<pr_urls, errors>>
          ELSE /\ pr_urls' = <<>>
               /\ errors' = Append(errors, [kind |-> "outer", url |-> 0])
               /\ gpc' = "returned"
               /\ UNCHANGED <<urls_defined, sem, tpc, result>>
    /\ UNCHANGED <<user_data_dir, concurrent_pages, max_prs, engine, browser,
                   context, released, spc, opened, all_prs>>
    /\ UNCHANGED nonScraperVars

\* --- get_user_prs: the process_pr tasks ------------------------------

\* The positions at which a task is executing _scrape_single_pr.
InScrape(k) == tpc[k] \in {"acquired", "scraping", "closing_ok", "closing_exc"}

\* The tasks that hold a slot of the semaphore.
Holders == {k \in Tasks : tpc[k] \notin {"pending", "done"}}

\* What every task step leaves alone.
TaskFrame ==
    /\ UNCHANGED <<user_data_dir, concurrent_pages, max_prs, engine, browser,
                   context, released, spc, gpc, pr_urls, urls_defined, all_prs>>
    /\ UNCHANGED nonScraperVars

\* A gate that admits a task whatever the semaphore's value.
AcquireUngated(k) ==
    /\ gpc = "gathering"
    /\ tpc[k] = "pending"
    /\ sem' = sem - 1
    /\ tpc' = [tpc EXCEPT ![k] = "acquired"]
    /\ UNCHANGED <<result, pages, opened, errors>>
    /\ TaskFrame

\* async with semaphore: the task proceeds only when the value is positive.
Acquire(k) ==
    /\ gpc = "gathering"
    /\ tpc[k] = "pending"
    /\ sem > 0
    /\ sem' = sem - 1
    /\ tpc' = [tpc EXCEPT ![k] = "acquired"]
    /\ UNCHANGED <<result, pages, opened, errors>>
    /\ TaskFrame

\* _scrape_single_pr: page = await self.context.new_page() (outside the try).
NewPage(k, ok) ==
    /\ gpc = "gathering"
    /\ tpc[k] = "acquired"
    /\ IF ok
          THEN /\ pages' = pages \cup {k}
               /\ opened' = opened \cup {k}
               /\ tpc' = [tpc EXCEPT ![k] = "scraping"]
          ELSE /\ pages' = pages
               /\ opened' = opened
               /\ tpc' = [tpc EXCEPT ![k] = "failed"]
    /\ UNCHANGED <<sem, result, errors>>
    /\ TaskFrame

\* The try block: goto, wait_for_selector and the five extractions, which
\* either all succeed or raise somewhere.
Scrape(k, ok) ==
    /\ gpc = "gathering"
    /\ tpc[k] = "scraping"
    /\ tpc' = [tpc EXCEPT ![k] = IF ok THEN "closing_ok" ELSE "closing_exc"]
    /\ UNCHANGED <<sem, result, pages, opened, errors>>
    /\ TaskFrame

\* _scrape_single_pr with page.close() after the try block instead of in a
\* finally: an exception in the block leaves the page open.
ClosePageUnlessRaised(k, ok) ==
    /\ gpc = "gathering"
    /\ tpc[k] \in {"closing_ok", "closing_exc"}
    /\ pages' = IF tpc[k] = "closing_ok" THEN pages \ {k} ELSE pages
    /\ IF tpc[k] = "closing_ok" /\ ok
          THEN /\ result' = [result EXCEPT ![k] = "pr"]
               /\ tpc' = [tpc EXCEPT ![k] = "releasing"]
          ELSE /\ result' = result
               /\ tpc' = [tpc EXCEPT ![k] = "failed"]
    /\ UNCHANGED <<sem, opened, errors>>
    /\ TaskFrame

\* finally: await page.close(); then the return value or the exception
\* reaches process_pr.
ClosePage(k, ok) ==
    /\ gpc = "gathering"
    /\ tpc[k] \in {"closing_ok", "closing_exc"}
    /\ pages' = pages \ {k}
    /\ IF tpc[k] = "closing_ok" /\ ok
          THEN /\ result' = [result EXCEPT ![k] = "pr"]
               /\ tpc' = [tpc EXCEPT ![k] = "releasing"]
          ELSE /\ result' = result
               /\ tpc' = [tpc EXCEPT ![k] = "failed"]
    /\ UNCHANGED <<sem, opened, errors>>
    /\ TaskFrame

\* A handler that swallows the failure without recording it.
HandleFailureSilently(k) ==
    /\ gpc = "gathering"
    /\ tpc[k] = "failed"
    /\ result' = [result EXCEPT ![k] = "none"]
    /\ tpc' = [tpc EXCEPT ![k] = "releasing"]
    /\ UNCHANGED <<sem, pages, opened, errors>>
    /\ TaskFrame

\* except Exception as e: errors.append(error_msg); return None
HandleFailure(k) ==
    /\ gpc = "gathering"
    /\ tpc[k] = "failed"
    /\ errors' = Append(errors, [kind |-> "scrape", url |-> pr_urls[k]])
    /\ result' = [result EXCEPT ![k] = "none"]
    /\ tpc' = [tpc EXCEPT ![k] = "releasing"]
    /\ UNCHANGED <<sem, pages, opened>>
    /\ TaskFrame

\* Leaving `async with semaphore`.
Release(k) ==
    /\ gpc = "gathering"
    /\ tpc[k] = "releasing"
    /\ sem' = sem + 1
    /\ tpc' = [tpc EXCEPT ![k] = "done"]
    /\ UNCHANGED <<result, pages, opened, errors>>
    /\ TaskFrame

\* asyncio.gather returns once every task has finished; the results that
\* are GitHubPRData go to all_prs (no task result is an exception, since
\* process_pr catches them all).
Gather ==
    /\ gpc = "gathering"
    /\ \A k \in Tasks : tpc[k] = "done"
    /\ all_prs' = {pr_urls[k] : k \in {j \in Tasks : result[j] = "pr"}}
    /\ gpc' = "returned"
    /\ UNCHANGED <<user_data_dir, concurrent_pages, max_prs, engine, browser,
                   context, released, spc, pr_urls, urls_defined, sem, tpc,
                   result, pages, opened, errors>>
    /\ UNCHANGED nonScraperVars

\* --- the end of the with-body and __aexit__ ---------------------------

\* The with-body ends after get_user_prs returned, normally or with an
\* exception of its own; both paths enter __aexit__.
BodyEnd ==
    /\ spc = "body"
    /\ gpc = "returned"
    /\ spc' = "aexit_context"
    /\ UNCHANGED <<user_data_dir, concurrent_pages, max_prs, engine, browser,
                   context, released, gpc, pr_urls, urls_defined, sem, tpc,
                   result, pages, opened, all_prs, errors>>
    /\ UNCHANGED nonScraperVars

\* The with-body raises before get_user_prs is called or completes its
\* first step (any statement of the caller's block may raise).
BodyRaise ==
    /\ spc = "body"
    /\ gpc = "idle"
    /\ spc' = "aexit_context"
    /\ gpc' = "skipped"
    /\ UNCHANGED <<user_data_dir, concurrent_pages, max_prs, engine, browser,
                   context, released, pr_urls, urls_defined, sem, tpc,
                   result, pages, opened, all_prs, errors>>
    /\ UNCHANGED nonScraperVars

\* if self.context: await self.context.close()
AexitContext(ok) ==
    /\ spc = "aexit_context"
    /\ IF context = "open"
          THEN IF ok
                  THEN /\ context' = "closed"
                       /\ released' = Append(released, "context")
                       /\ spc' = "aexit_browser"
                  ELSE /\ spc' = "raised"
                       /\ UNCHANGED <<context, released>>
          ELSE /\ spc' = "aexit_browser"
               /\ UNCHANGED <<context, released>>
    /\ UNCHANGED <<user_data_dir, concurrent_pages, max_prs, engine, browser,
                   gpc, pr_urls, urls_defined, sem, tpc, result, pages,
                   opened, all_prs, errors>>
    /\ UNCHANGED nonScraperVars

\* if self.browser: await self.browser.close()
AexitBrowser(ok) ==
    /\ spc = "aexit_browser"
    /\ IF browser = "open"
          THEN IF ok
                  THEN /\ browser' = "closed"
                       /\ released' = Append(released, "browser")
                       /\ spc' = "aexit_engine"
                  ELSE /\ spc' = "raised"
                       /\ UNCHANGED <<browser, released>>
          ELSE /\ spc' = "aexit_engine"
               /\ UNCHANGED <<browser, released>>
    /\ UNCHANGED <<user_data_dir, concurrent_pages, max_prs, engine, context,
                   gpc, pr_urls, urls_defined, sem, tpc, result, pages,
                   opened, all_prs, errors>>
    /\ UNCHANGED nonScraperVars

\* if hasattr(self, 'playwright'): await self.playwright.stop()
AexitEngine(ok) ==
    /\ spc = "aexit_engine"
    /\ IF engine = "started"
          THEN IF ok
                  THEN /\ engine' = "stopped"
                       /\ released' = Append(released, "engine")
                       /\ spc' = "exited"
                  ELSE /\ spc' = "raised"
                       /\ UNCHANGED <<engine, released>>
          ELSE /\ spc' = "exited"
               /\ UNCHANGED <<engine, released>>
    /\ UNCHANGED <<user_data_dir, concurrent_pages, max_prs, browser, context,
                   gpc, pr_urls, urls_defined, sem, tpc, result, pages,
                   opened, all_prs, errors>>
    /\ UNCHANGED nonScraperVars

NextScraper ==
    \/ \E ok \in BOOLEAN : AenterStart(ok)
    \/ \E ok \in BOOLEAN : AenterLaunch(ok)
    \/ \E ok \in BOOLEAN : AenterContext(ok)
    \/ \E ok \in BOOLEAN : SearchOpen(ok)
    \/ SearchFound
    \/ SearchEnd
    \/ SearchFail
    \/ \E ok \in BOOLEAN : SearchClose(ok)
    \/ \E k \in Tasks : Acquire(k)
    \/ \E k \in Tasks, ok \in BOOLEAN : NewPage(k, ok)
    \/ \E k \in Tasks, ok \in BOOLEAN : Scrape(k, ok)
    \/ \E k \in Tasks, ok \in BOOLEAN : ClosePage(k, ok)
    \/ \E k \in Tasks : HandleFailure(k)
    \/ \E k \in Tasks : Release(k)
    \/ Gather
    \/ BodyEnd
    \/ BodyRaise
    \/ \E ok \in BOOLEAN : AexitContext(ok)
    \/ \E ok \in BOOLEAN : AexitBrowser(ok)
    \/ \E ok \in BOOLEAN : AexitEngine(ok)

SpecScraper == InitScraper /\ [][NextScraper]_vars

\* --- properties of the browser scraper --------------------------------

\* Number of entries of errors recorded for URL u by a process_pr task.
ErrorsFor(u) ==
    Cardinality({j \in 1..Len(errors) :
                    errors[j].kind = "scrape" /\ errors[j].url = u})

\* C1: at every moment at most concurrent_pages tasks are executing
\* _scrape_single_pr and at most concurrent_pages PR pages are open, and a
\* waiting task is admitted only while fewer than concurrent_pages tasks
\* hold a slot.
C1_AdmissionGate ==
    /\ [](/\ Cardinality({k \in Tasks : InScrape(k)}) <= concurrent_pages
          /\ Cardinality(pages \ {0}) <= concurrent_pages)
    /\ [][\A k \in Tasks :
             (tpc[k] = "pending" /\ tpc'[k] # "pending")
                 => Cardinality(Holders) < concurrent_pages]_vars

\* The gate is full and another task is waiting for a slot.
C1_Witness ==
    /\ gpc = "gathering"
    /\ Cardinality({k \in Tasks : InScrape(k)}) = concurrent_pages
    /\ Cardinality(pages \ {0}) = concurrent_pages
    /\ \E k \in Tasks : tpc[k] = "pending"

\* C2: when get_user_prs has returned after a successful search, every URL
\* found is either in the result's PRs with no error recorded for it, or
\* absent from the PRs with exactly one error string recorded for it; a
\* failure of one task takes no sibling's outcome away.
C2_FailureIsolated ==
    (gpc = "returned" /\ urls_defined) =>
        \A k \in 1..Len(pr_urls) :
            \/ pr_urls[k] \in all_prs /\ ErrorsFor(pr_urls[k]) = 0
            \/ pr_urls[k] \notin all_prs /\ ErrorsFor(pr_urls[k]) = 1

\* A run in which one task failed and a sibling still delivered its PR.
C2_Witness ==
    /\ gpc = "returned"
    /\ urls_defined
    /\ \E k \in 1..Len(pr_urls) : ErrorsFor(pr_urls[k]) = 1
    /\ \E k \in 1..Len(pr_urls) : pr_urls[k] \in all_prs

\* C3: whenever the run is over (left normally or by an exception raised in
\* the body, in __aenter__ or in __aexit__), no resource is still open and
\* the releases happened in the order context, browser, engine.
C3_TeardownOnEveryExit ==
    spc \in {"exited", "raised"} =>
        /\ engine # "started"
        /\ browser # "open"
        /\ context # "open"
        /\ released \in {<<>>, <<"context", "engine">>,
                         <<"context", "browser", "engine">>}

\* ===================================================================
\* REST client: rate-limit pacing and the fetch loops
\* ===================================================================

\* GitHubClient.__init__ at some time of day, followed by PRAnalyser.analyze.
InitClient ==
    /\ requests_per_hour \in 1..MaxRate
    /\ requests_made = 0
    /\ now \in {0, ClockStep}
    /\ last_reset = now
    /\ cpc = "org_pace"
    /\ repositories = <<>>
    /\ ri = 0
    /\ items_left = 0
    /\ client_prs = <<>>
    /\ client_commits = <<>>
    /\ failed_repos = {}
    /\ pr_fetched = {}
    /\ slept = 0
    /\ paced = FALSE
    /\ unpaced_calls = 0
    /\ calls_in_window = 0
    /\ ScraperIdle
    /\ AuthIdle
    /\ CliIdle
    /\ EnhanceIdle
    /\ ToolsIdle

\* What no client step changes.
ClientFrame == UNCHANGED <<requests_per_hour>> /\ UNCHANGED nonClientVars

\* Time passes between two steps of the run.
ClientTick ==
    /\ cpc \notin {"idle", "done"}
    /\ now + ClockStep <= MaxClock
    /\ now' = now + ClockStep
    /\ UNCHANGED <<requests_made, last_reset, cpc, repositories, ri,
                   items_left, client_prs, client_commits, failed_repos,
                   pr_fetched, slept, paced, unpaced_calls, calls_in_window>>
    /\ ClientFrame

\* _handle_rate_limit without the check of the ceiling: the counter is
\* reset after an hour and counts on otherwise.
HandleRateLimitNoCeiling ==
    LET current_time == now
        expired == current_time - last_reset >= Hour
    IN  /\ now' = now
        /\ last_reset' = IF expired THEN current_time ELSE last_reset
        /\ requests_made' = (IF expired THEN 0 ELSE requests_made) + 1
        /\ slept' = 0
        /\ calls_in_window' = IF last_reset' # last_reset
                                 THEN 0 ELSE calls_in_window
        /\ paced' = TRUE
        /\ UNCHANGED unpaced_calls

\* _handle_rate_limit: reset after an hour; at the ceiling sleep until the
\* end of the window and reset; count the request.
HandleRateLimit ==
    LET current_time == now
        expired == current_time - last_reset >= Hour
        made1 == IF expired THEN 0 ELSE requests_made
        reset1 == IF expired THEN current_time ELSE last_reset
        sleep_time == Hour - (current_time - reset1)
        sleeps == made1 >= requests_per_hour /\ sleep_time > 0
    IN  /\ now' = IF sleeps THEN current_time + sleep_time ELSE now
        /\ last_reset' = IF sleeps THEN now' ELSE reset1
        /\ requests_made' = (IF sleeps THEN 0 ELSE made1) + 1
        /\ slept' = IF sleeps THEN sleep_time ELSE 0
        /\ calls_in_window' = IF last_reset' # last_reset
                                 THEN 0 ELSE calls_in_window
        /\ paced' = TRUE
        /\ UNCHANGED unpaced_calls

\* One request sent to the GitHub API.
ApiCall ==
    /\ calls_in_window' = calls_in_window + 1
    /\ unpaced_calls' = IF paced THEN unpaced_calls ELSE unpaced_calls + 1
    /\ paced' = FALSE
    /\ UNCHANGED <<requests_made, last_reset, now, slept>>

\* The position after the current repository of the PR loop: the next
\* repository, or the first repository of the commit loop.
AfterPrRepo == IF ri < Len(repositories) THEN "pr_repo_pace" ELSE "commit_repo_pace"
RiAfterPrRepo == IF ri < Len(repositories) THEN ri + 1 ELSE 1

\* The same for the commit loop, after which the run is over.
AfterCommitRepo == IF ri < Len(repositories) THEN "commit_repo_pace" ELSE "done"
RiAfterCommitRepo == IF ri < Len(repositories) THEN ri + 1 ELSE ri

\* get_organization_repositories: self._handle_rate_limit()
OrgPace ==
    /\ cpc = "org_pace"
    /\ HandleRateLimit
    /\ cpc' = "org_lookup"
    /\ UNCHANGED <<repositories, ri, items_left, client_prs, client_commits,
                   failed_repos, pr_fetched>>
    /\ ClientFrame

\* org = self.github.get_organization(org_name); GithubException: return []
OrgLookup(ok) ==
    /\ cpc = "org_lookup"
    /\ ApiCall
    /\ cpc' = IF ok THEN "repo_listing" ELSE "done"
    /\ UNCHANGED <<repositories, ri, items_left, client_prs, client_commits,
                   failed_repos, pr_fetched>>
    /\ ClientFrame

\* repositories = list(org.get_repos()); an empty list (or an exception)
\* ends the analysis with an empty result.
RepoListing(ok, n) ==
    /\ cpc = "repo_listing"
    /\ ApiCall
    /\ IF ok /\ n > 0
          THEN /\ repositories' = [k \in 1..n |-> k]
               /\ ri' = 1
               /\ cpc' = "pr_repo_pace"
          ELSE /\ repositories' = <<>>
               /\ ri' = ri
               /\ cpc' = "done"
    /\ UNCHANGED <<items_left, client_prs, client_commits, failed_repos,
                   pr_fetched>>
    /\ ClientFrame

\* get_user_pull_requests, per repository: self._handle_rate_limit()
PrRepoPace ==
    /\ cpc = "pr_repo_pace"
    /\ HandleRateLimit
    /\ cpc' = "pr_list"
    /\ pr_fetched' = pr_fetched \cup {repositories[ri]}
    /\ UNCHANGED <<repositories, ri, items_left, client_prs, client_commits,
                   failed_repos>>
    /\ ClientFrame

\* repo.get_pulls(...): the listing is fetched when the loop starts.
PrList(ok, n) ==
    /\ cpc = "pr_list"
    /\ ApiCall
    /\ IF ok
          THEN /\ items_left' = n
               /\ failed_repos' = failed_repos
               /\ cpc' = IF n > 0 THEN "pr_item_pace" ELSE AfterPrRepo
               /\ ri' = IF n > 0 THEN ri ELSE RiAfterPrRepo
          ELSE /\ items_left' = 0
               /\ failed_repos' = failed_repos \cup {repositories[ri]}
               /\ cpc' = AfterPrRepo
               /\ ri' = RiAfterPrRepo
    /\ UNCHANGED <<repositories, client_prs, client_commits, pr_fetched>>
    /\ ClientFrame

\* for pr in prs: self._handle_rate_limit(), then the author, date, status
\* and branch filters; a PR that fails one of them is skipped.
PrItemPace(keep) ==
    /\ cpc = "pr_item_pace"
    /\ HandleRateLimit
    /\ IF keep
          THEN /\ cpc' = "pr_reviews"
               /\ UNCHANGED <<ri, items_left>>
          ELSE /\ items_left' = items_left - 1
               /\ cpc' = IF items_left' > 0 THEN "pr_item_pace" ELSE AfterPrRepo
               /\ ri' = IF items_left' > 0 THEN ri ELSE RiAfterPrRepo
    /\ UNCHANGED <<repositories, client_prs, client_commits, failed_repos,
                   pr_fetched>>
    /\ ClientFrame

\* reviews = list(pr.get_reviews()); all_prs.append(pr_data).  A
\* GithubException leaves the repository's loop.
PrReviews(ok) ==
    /\ cpc = "pr_reviews"
    /\ ApiCall
    /\ IF ok
          THEN /\ client_prs' = Append(client_prs, repositories[ri])
               /\ failed_repos' = failed_repos
               /\ items_left' = items_left - 1
               /\ cpc' = IF items_left' > 0 THEN "pr_item_pace" ELSE AfterPrRepo
               /\ ri' = IF items_left' > 0 THEN ri ELSE RiAfterPrRepo
          ELSE /\ client_prs' = client_prs
               /\ failed_repos' = failed_repos \cup {repositories[ri]}
               /\ items_left' = 0
               /\ cpc' = AfterPrRepo
               /\ ri' = RiAfterPrRepo
    /\ UNCHANGED <<repositories, client_commits, pr_fetched>>
    /\ ClientFrame

\* get_user_commits, per repository: self._handle_rate_limit()
CommitRepoPace ==
    /\ cpc = "commit_repo_pace"
    /\ HandleRateLimit
    /\ cpc' = "commit_list"
    /\ UNCHANGED <<repositories, ri, items_left, client_prs, client_commits,
                   failed_repos, pr_fetched>>
    /\ ClientFrame

\* repo.get_commits(author=...): the listing is fetched when the loop starts.
CommitList(ok, n) ==
    /\ cpc = "commit_list"
    /\ ApiCall
    /\ items_left' = IF ok THEN n ELSE 0
    /\ cpc' = IF ok /\ n > 0 THEN "commit_item_pace" ELSE AfterCommitRepo
    /\ ri' = IF ok /\ n > 0 THEN ri ELSE RiAfterCommitRepo
    /\ UNCHANGED <<repositories, client_prs, client_commits, failed_repos,
                   pr_fetched>>
    /\ ClientFrame

\* for commit in commits: self._handle_rate_limit()
CommitItemPace ==
    /\ cpc = "commit_item_pace"
    /\ HandleRateLimit
    /\ cpc' = "commit_detail"
    /\ UNCHANGED <<repositories, ri, items_left, client_prs, client_commits,
                   failed_repos, pr_fetched>>
    /\ ClientFrame

\* commit_details = repo.get_commit(commit.sha); all_commits.append(...)
CommitDetail(ok) ==
    /\ cpc = "commit_detail"
    /\ ApiCall
    /\ IF ok
          THEN /\ client_commits' = Append(client_commits, repositories[ri])
               /\ items_left' = items_left - 1
               /\ cpc' = IF items_left' > 0
                            THEN "commit_item_pace" ELSE AfterCommitRepo
               /\ ri' = IF items_left' > 0 THEN ri ELSE RiAfterCommitRepo
          ELSE /\ client_commits' = client_commits
               /\ items_left' = 0
               /\ cpc' = AfterCommitRepo
               /\ ri' = RiAfterCommitRepo
    /\ UNCHANGED <<repositories, client_prs, failed_repos, pr_fetched>>
    /\ ClientFrame

NextClient ==
    \/ ClientTick
    \/ OrgPace
    \/ \E ok \in BOOLEAN : OrgLookup(ok)
    \/ \E ok \in BOOLEAN, n \in 0..MaxRepos : RepoListing(ok, n)
    \/ PrRepoPace
    \/ \E ok \in BOOLEAN, n \in 0..MaxItems : PrList(ok, n)
    \/ \E keep \in BOOLEAN : PrItemPace(keep)
    \/ \E ok \in BOOLEAN : PrReviews(ok)
    \/ CommitRepoPace
    \/ \E ok \in BOOLEAN, n \in 0..MaxItems : CommitList(ok, n)
    \/ CommitItemPace
    \/ \E ok \in BOOLEAN : CommitDetail(ok)

SpecClient == InitClient /\ [][NextClient]_vars

\* --- properties of the REST client -----------------------------------

\* C4: every API call the client issues has a pacing step of its own
\* before it, and the calls issued within one pacing window never exceed
\* requests_per_hour.
C4_PacedBeforeEveryCall ==
    /\ unpaced_calls = 0
    /\ calls_in_window <= requests_per_hour

\* ===================================================================
\* Token manager
\* ===================================================================

\* The per-call state at the entry of get_auth_token.
AuthCallEntry(force) ==
    /\ force_reauth' = force
    /\ apc' = "start"
    /\ initial_stored' = keyring
    /\ retrieved' = 0
    /\ flow_started' = FALSE
    /\ stored_at_flow' = 0
    /\ stored_token' = 0
    /\ questions' = 0
    /\ prompted' = FALSE
    /\ entered' = 0
    /\ validations' = 0
    /\ accepted' = {}
    /\ store_calls' = {}
    /\ agreed' = FALSE
    /\ ret' = 0
    /\ ret_source' = "pending"

\* The first get_auth_token call of a process; the credential store may
\* hold a token from an earlier run.
InitAuth ==
    /\ keyring \in 0..MaxTokens
    /\ force_reauth \in BOOLEAN
    /\ apc = "start"
    /\ auth_calls = 1
    /\ initial_stored = keyring
    /\ retrieved = 0
    /\ flow_started = FALSE
    /\ stored_at_flow = 0
    /\ stored_token = 0
    /\ questions = 0
    /\ prompted = FALSE
    /\ entered = 0
    /\ validations = 0
    /\ accepted = {}
    /\ store_calls = {}
    /\ agreed = FALSE
    /\ ret = 0
    /\ ret_source = "pending"
    /\ ScraperIdle
    /\ ClientIdle
    /\ CliIdle
    /\ EnhanceIdle
    /\ ToolsIdle

\* get_stored_token: the entry, or None when keyring.get_password raises.
GetStoredToken(ok) == IF ok THEN keyring ELSE 0

\* delete_stored_token: the entry is removed unless keyring.delete_password
\* raises (the exception is swallowed and False returned).
DeleteStoredToken(ok) == IF ok THEN 0 ELSE keyring

\* store_token: the entry is set unless keyring.set_password raises.
StoreToken(token, ok) == IF ok THEN token ELSE keyring

\* _validate_token: the answer for an API response with the given status
\* (0: the request raised), whether the login matches the user name and
\* whether the user answered "Continue anyway?" with yes.
ValidateToken(status, login_matches, continue_anyway) ==
    IF status = StatusOk
       THEN login_matches \/ continue_anyway
       ELSE FALSE

\* A get_auth_token that never looks at the stored token.
AuthStartIgnoringStore(kr_ok) ==
    /\ apc = "start"
    /\ keyring' = IF force_reauth THEN DeleteStoredToken(kr_ok) ELSE keyring
    /\ retrieved' = IF force_reauth THEN 0 ELSE GetStoredToken(kr_ok)
    /\ apc' = "flow"
    /\ UNCHANGED <<ret, ret_source>>
    /\ UNCHANGED <<force_reauth, auth_calls, initial_stored, flow_started,
                   stored_at_flow, stored_token, questions, prompted, entered,
                   validations, accepted, store_calls, agreed>>
    /\ UNCHANGED nonAuthVars

\* get_auth_token: with force_reauth delete the stored token and go to the
\* interactive flow; otherwise return the stored token if one is read.
AuthStart(kr_ok) ==
    /\ apc = "start"
    /\ IF force_reauth
          THEN /\ keyring' = DeleteStoredToken(kr_ok)
               /\ apc' = "flow"
               /\ UNCHANGED <<retrieved, ret, ret_source>>
          ELSE /\ keyring' = keyring
               /\ retrieved' = GetStoredToken(kr_ok)
               /\ IF retrieved' # 0
                     THEN /\ ret' = retrieved'
                          /\ ret_source' = "stored"
                          /\ apc' = "done"
                     ELSE /\ apc' = "flow"
                          /\ UNCHANGED <<ret, ret_source>>
    /\ UNCHANGED <<force_reauth, auth_calls, initial_stored, flow_started,
                   stored_at_flow, stored_token, questions, prompted, entered,
                   validations, accepted, store_calls, agreed>>
    /\ UNCHANGED nonAuthVars

\* authenticate_interactive: stored_token = self.get_stored_token(username)
FlowStart(kr_ok) ==
    /\ apc = "flow"
    /\ flow_started' = TRUE
    /\ stored_at_flow' = keyring
    /\ stored_token' = GetStoredToken(kr_ok)
    /\ apc' = IF stored_token' # 0 THEN "ask_reuse" ELSE "prompt"
    /\ UNCHANGED <<keyring, force_reauth, auth_calls, initial_stored,
                   retrieved, questions, prompted, entered, validations,
                   accepted, store_calls, agreed, ret, ret_source>>
    /\ UNCHANGED nonAuthVars

\* Confirm.ask("Use stored authentication ...?"): yes returns the stored
\* token, no deletes it and goes on to the prompt.
AskReuse(yes, kr_ok) ==
    /\ apc = "ask_reuse"
    /\ questions' = questions + 1
    /\ IF yes
          THEN /\ ret' = stored_token
               /\ ret_source' = "stored"
               /\ apc' = "done"
               /\ keyring' = keyring
          ELSE /\ keyring' = DeleteStoredToken(kr_ok)
               /\ apc' = "prompt"
               /\ UNCHANGED <<ret, ret_source>>
    /\ UNCHANGED <<force_reauth, auth_calls, initial_stored, retrieved,
                   flow_started, stored_at_flow, stored_token, prompted,
                   entered, validations, accepted, store_calls, agreed>>
    /\ UNCHANGED nonAuthVars

\* _show_auth_instructions (one question) and Prompt.ask for the token; an
\* empty entry returns None.
PromptToken(token) ==
    /\ apc = "prompt"
    /\ questions' = questions + 2
    /\ prompted' = TRUE
    /\ entered' = token
    /\ IF token = 0
          THEN /\ ret' = 0
               /\ ret_source' = "absent"
               /\ apc' = "done"
          ELSE /\ apc' = "validate"
               /\ UNCHANGED <<ret, ret_source>>
    /\ UNCHANGED <<keyring, force_reauth, auth_calls, initial_stored,
                   retrieved, flow_started, stored_at_flow, stored_token,
                   validations, accepted, store_calls, agreed>>
    /\ UNCHANGED nonAuthVars

\* A flow that goes on to the store question whatever the validation says.
ValidateStepUnchecked(status, login_matches, continue_anyway) ==
    /\ apc = "validate"
    /\ validations' = validations + 1
    /\ accepted' = IF ValidateToken(status, login_matches, continue_anyway)
                      THEN accepted \cup {entered} ELSE accepted
    /\ apc' = "ask_store"
    /\ UNCHANGED <<ret, ret_source>>
    /\ questions' = IF status = StatusOk /\ ~login_matches
                       THEN questions + 1 ELSE questions
    /\ UNCHANGED <<keyring, force_reauth, auth_calls, initial_stored,
                   retrieved, flow_started, stored_at_flow, stored_token,
                   prompted, entered, store_calls, agreed>>
    /\ UNCHANGED nonAuthVars

\* if self._validate_token(token, username): ... else: return None
\* (a login that differs from the user name costs one more question).
ValidateStep(status, login_matches, continue_anyway) ==
    /\ apc = "validate"
    /\ validations' = validations + 1
    /\ IF ValidateToken(status, login_matches, continue_anyway)
          THEN /\ accepted' = accepted \cup {entered}
               /\ apc' = "ask_store"
               /\ UNCHANGED <<ret, ret_source>>
          ELSE /\ accepted' = accepted
               /\ ret' = 0
               /\ ret_source' = "absent"
               /\ apc' = "done"
    /\ questions' = IF status = StatusOk /\ ~login_matches
                       THEN questions + 1 ELSE questions
    /\ UNCHANGED <<keyring, force_reauth, auth_calls, initial_stored,
                   retrieved, flow_started, stored_at_flow, stored_token,
                   prompted, entered, store_calls, agreed>>
    /\ UNCHANGED nonAuthVars

\* Confirm.ask("Store this token ...?"); store_token on yes; return token.
AskStore(yes, kr_ok) ==
    /\ apc = "ask_store"
    /\ questions' = questions + 1
    /\ agreed' = yes
    /\ store_calls' = IF yes THEN store_calls \cup {entered} ELSE store_calls
    /\ keyring' = IF yes THEN StoreToken(entered, kr_ok) ELSE keyring
    /\ ret' = entered
    /\ ret_source' = "fresh"
    /\ apc' = "done"
    /\ UNCHANGED <<force_reauth, auth_calls, initial_stored, retrieved,
                   flow_started, stored_at_flow, stored_token, prompted,
                   entered, validations, accepted>>
    /\ UNCHANGED nonAuthVars

\* A later get_auth_token call of the same user.
AuthCallAgain(force) ==
    /\ apc = "done"
    /\ auth_calls < MaxAuthCalls
    /\ auth_calls' = auth_calls + 1
    /\ AuthCallEntry(force)
    /\ UNCHANGED keyring
    /\ UNCHANGED nonAuthVars

NextAuth ==
    \/ \E kr_ok \in BOOLEAN : AuthStart(kr_ok)
    \/ \E kr_ok \in BOOLEAN : FlowStart(kr_ok)
    \/ \E yes \in BOOLEAN, kr_ok \in BOOLEAN : AskReuse(yes, kr_ok)
    \/ \E token \in 0..MaxTokens : PromptToken(token)
    \/ \E status \in {0, StatusOk, StatusUnauthorized, StatusOther},
          login_matches \in BOOLEAN, continue_anyway \in BOOLEAN :
            ValidateStep(status, login_matches, continue_anyway)
    \/ \E yes \in BOOLEAN, kr_ok \in BOOLEAN : AskStore(yes, kr_ok)
    \/ \E force \in BOOLEAN : AuthCallAgain(force)

SpecAuth == InitAuth /\ [][NextAuth]_vars

\* --- properties of the token manager ---------------------------------

\* C5: with force_reauth the interactive flow always runs, it starts with
\* no token stored for the user, and the call does not return the token
\* that was stored before it unless the user typed that token again.
C5_ForceReauthFreshEntry ==
    force_reauth =>
        /\ flow_started => stored_at_flow = 0
        /\ apc = "done" => flow_started
        /\ (apc = "done" /\ ret # 0 /\ ret = initial_stored)
               => (prompted /\ entered = ret)

\* C6 as stated: without force_reauth a stored token is returned with no
\* question asked and no validation, and the interactive flow is entered
\* only when no token is stored.
C6_StoredTokenReturned ==
    ~force_reauth =>
        /\ (initial_stored # 0 /\ apc # "start")
               => /\ apc = "done"
                  /\ ret = initial_stored
                  /\ questions = 0
                  /\ validations = 0
        /\ flow_started => initial_stored = 0

\* C6 as amended: without force_reauth a token read by get_stored_token is
\* returned as it is, with no question asked, no validation and no
\* interactive flow; the flow is entered only when no token was read
\* (none stored, or the read of the credential store failed).
C6_RetrievedTokenReturned ==
    (~force_reauth /\ apc # "start") =>
        /\ retrieved # 0
               => /\ apc = "done"
                  /\ ret = retrieved
                  /\ ret = initial_stored
                  /\ ret_source = "stored"
                  /\ questions = 0
                  /\ validations = 0
                  /\ ~flow_started
        /\ (flow_started \/ apc = "flow") => retrieved = 0

\* The stored token was read and returned.
C6_Witness ==
    /\ ~force_reauth
    /\ apc = "done"
    /\ retrieved # 0
    /\ ret = retrieved

\* C7: a freshly entered token is returned only if _validate_token accepted
\* it; store_token is called only with an accepted token the user agreed
\* to persist; after an empty entry or a rejected token the call returns
\* absent and store_token was not called.
C7_OnlyValidatedTokens ==
    /\ ret_source = "fresh" => (ret = entered /\ ret \in accepted)
    /\ store_calls \subseteq accepted
    /\ store_calls # {} => (agreed /\ store_calls = {entered})
    /\ (apc = "done" /\ prompted /\ (entered = 0 \/ entered \notin accepted))
           => (ret = 0 /\ ret_source = "absent" /\ store_calls = {})

\* A validated token was persisted and returned.
C7_Witness ==
    /\ apc = "done"
    /\ ret_source = "fresh"
    /\ ret \in accepted
    /\ store_calls = {ret}
    /\ keyring = ret

\* A typed token was rejected by the validation.
C7_WitnessRejected ==
    /\ apc = "done"
    /\ prompted
    /\ entered # 0
    /\ validations = 1
    /\ ret = 0

\* ===================================================================
\* GitHub CLI analyzer
\* ===================================================================

\* The createdAt values of the PRs the CLI reports (two instants, the
\* later one being 2).
CreatedAts == {1, 2}

\* The JSON lists a CLI query can print: each entry is its createdAt, 0
\* for an entry the conversion cannot parse.
QueryOutputs == UNION {[1..n -> {0} \cup CreatedAts] : n \in 0..MaxPerQuery}

\* get_user_prs is called with an explicit repository list, with an
\* organization, or with neither.
InitCli ==
    /\ strategy \in {"repos", "org", "global"}
    /\ repo_list \in {[k \in 1..n |-> k] : n \in 0..MaxCliRepos}
    /\ (strategy = "repos") = (repo_list # <<>>)
    /\ cli_max_prs \in 0..MaxCap
    /\ include_closed \in BOOLEAN
    /\ include_merged \in BOOLEAN
    /\ date_from \in {0, 2}
    /\ date_to \in {0, 1}
    /\ date_naive \in BOOLEAN
    /\ date_naive => (date_from # 0 \/ date_to # 0)
    /\ kpc = "start"
    /\ kri = 0
    /\ ksi = 0
    /\ acc = <<>>
    /\ cli_result = <<>>
    /\ query_log = <<>>
    /\ visited = <<>>
    /\ cli_failed = {}
    /\ ScraperIdle
    /\ ClientIdle
    /\ AuthIdle
    /\ EnhanceIdle
    /\ ToolsIdle

\* _get_prs_for_repo: the candidate state list.
States ==
    (IF include_closed THEN <<"closed">> ELSE <<>>)
        \o (IF include_merged THEN <<"merged">> ELSE <<>>)
        \o <<"open">>

\* _convert_to_pr_data: one record per entry that parses.
ConvertToPrData(out, repo) ==
    LET kept == SelectSeq(out, LAMBDA e : e # 0)
    IN  [k \in 1..Len(kept) |-> [repo |-> repo, created_at |-> kept[k]]]

\* Comparing the timezone-aware created_at with a naive bound raises
\* TypeError at the first PR.
DateFilterRaises(prs) ==
    (date_from # 0 \/ date_to # 0) /\ date_naive /\ Len(prs) > 0

\* _filter_prs_by_date
FilterPrsByDate(prs) ==
    SelectSeq(prs, LAMBDA pr :
        /\ ~(date_from # 0 /\ pr.created_at < date_from)
        /\ ~(date_to # 0 /\ pr.created_at > date_to))

\* x placed in the descending list s behind every element not older than it.
RECURSIVE InsertDesc(_, _)
InsertDesc(x, s) ==
    IF s = <<>> THEN <<x>>
    ELSE IF Head(s).created_at >= x.created_at
            THEN <<Head(s)>> \o InsertDesc(x, Tail(s))
            ELSE <<x>> \o s

\* A sort that leaves the list in the order of arrival.
SortSkipped(prs) == prs

\* all_prs.sort(key=lambda pr: pr.created_at, reverse=True): a stable sort.
RECURSIVE SortByCreatedDesc(_)
SortByCreatedDesc(prs) ==
    IF prs = <<>> THEN <<>>
    ELSE InsertDesc(prs[Len(prs)],
                    SortByCreatedDesc(SubSeq(prs, 1, Len(prs) - 1)))

\* The tail of get_user_prs: sort, then all_prs[:max_prs] if max_prs.
SortAndLimit(prs) ==
    LET sorted == SortByCreatedDesc(prs)
    IN  IF cli_max_prs # 0 /\ Len(sorted) > cli_max_prs
           THEN SubSeq(sorted, 1, cli_max_prs)
           ELSE sorted

\* The loop of get_user_prs without the break at max_prs.
RepoReturnedUncapped(prs) ==
    LET all == acc \o prs
    IN  /\ acc' = all
        /\ IF kri = Len(repo_list)
              THEN /\ cli_result' = SortAndLimit(all)
                   /\ kpc' = "done"
                   /\ UNCHANGED <<kri, ksi>>
              ELSE /\ kri' = kri + 1
                   /\ ksi' = 1
                   /\ UNCHANGED <<kpc, cli_result>>

\* _get_prs_for_repo returned prs: extend all_prs; stop at max_prs or after
\* the last repository, then sort and limit; otherwise the next repository.
RepoReturned(prs) ==
    LET all == acc \o prs
    IN  /\ acc' = all
        /\ IF (cli_max_prs # 0 /\ Len(all) >= cli_max_prs)
                \/ kri = Len(repo_list)
              THEN /\ cli_result' = SortAndLimit(all)
                   /\ kpc' = "done"
                   /\ UNCHANGED <<kri, ksi>>
              ELSE /\ kri' = kri + 1
                   /\ ksi' = 1
                   /\ UNCHANGED <<kpc, cli_result>>

\* What no step of get_user_prs changes.
CliFrame ==
    /\ UNCHANGED <<strategy, cli_max_prs, include_closed, include_merged,
                   date_from, date_to, date_naive>>
    /\ UNCHANGED nonCliVars

\* if repositories: repo_list = repositories
UseRepositories ==
    /\ kpc = "start"
    /\ strategy = "repos"
    /\ kpc' = "repos"
    /\ kri' = 1
    /\ ksi' = 1
    /\ UNCHANGED <<repo_list, acc, cli_result, query_log, visited,
                   cli_failed>>
    /\ CliFrame

\* elif organization: repo_list = self._get_organization_repos(...), which
\* is [] when `gh repo list` fails; an empty list skips the loop.
ListOrganizationRepos(ok, n) ==
    /\ kpc = "start"
    /\ strategy = "org"
    /\ IF ok /\ n > 0
          THEN /\ repo_list' = [k \in 1..n |-> k]
               /\ kpc' = "repos"
               /\ kri' = 1
               /\ ksi' = 1
               /\ UNCHANGED cli_result
          ELSE /\ repo_list' = <<>>
               /\ kpc' = "done"
               /\ cli_result' = SortAndLimit(<<>>)
               /\ UNCHANGED <<kri, ksi>>
    /\ UNCHANGED <<acc, query_log, visited, cli_failed>>
    /\ CliFrame

\* else: return self._search_prs_globally(...).  `gh search prs` prints at
\* most --limit entries in its own order; a failure gives [].
SearchPrsGlobally(outcome, out) ==
    /\ kpc = "start"
    /\ strategy = "global"
    /\ Len(out) <= (IF cli_max_prs # 0 THEN cli_max_prs ELSE DefaultSearchLimit)
    /\ cli_result' = IF outcome = "ok" THEN ConvertToPrData(out, 0) ELSE <<>>
    /\ kpc' = "done"
    /\ UNCHANGED <<repo_list, kri, ksi, acc, query_log, visited,
                   cli_failed>>
    /\ CliFrame

\* A per-repository fetch that adds up the results of every state.
QueryStateAccumulating(outcome, out) ==
    /\ kpc = "repos"
    /\ query_log' = Append(IF ksi = 1 THEN <<>> ELSE query_log,
                           [repo |-> repo_list[kri], state |-> States[ksi],
                            outcome |-> outcome])
    /\ LET prs == IF outcome = "ok"
                     THEN ConvertToPrData(out, repo_list[kri]) ELSE <<>>
       IN  IF ksi < Len(States)
              THEN /\ ksi' = ksi + 1
                   /\ acc' = acc \o prs
                   /\ UNCHANGED <<kpc, kri, cli_result>>
              ELSE RepoReturned(prs)
    /\ UNCHANGED <<repo_list, visited, cli_failed>>
    /\ CliFrame

\* _get_prs_for_repo, one `gh pr list --state <state>` of its loop: a
\* non-zero exit goes on to the next state; a timeout or malformed JSON
\* returns []; a success returns the converted and date-filtered PRs.  The
\* fetch of a repository failed when every query exited non-zero or
\* something raised.
QueryState(outcome, out) ==
    /\ kpc = "repos"
    /\ query_log' = Append(IF ksi = 1 THEN <<>> ELSE query_log,
                           [repo |-> repo_list[kri], state |-> States[ksi],
                            outcome |-> outcome])
    /\ visited' = IF ksi = 1
                     THEN Append(visited, [repo |-> repo_list[kri],
                                           before |-> Len(acc)])
                     ELSE visited
    /\ LET prs == ConvertToPrData(out, repo_list[kri])
           failed == \/ outcome = "nonzero" /\ ksi = Len(States)
                     \/ outcome = "raise"
                     \/ outcome = "ok" /\ DateFilterRaises(prs)
       IN  /\ cli_failed' = IF failed THEN cli_failed \cup {repo_list[kri]}
                                      ELSE cli_failed
           /\ IF outcome = "nonzero"
                 THEN IF ksi < Len(States)
                         THEN /\ ksi' = ksi + 1
                              /\ UNCHANGED <<kpc, kri, acc, cli_result>>
                         ELSE RepoReturned(<<>>)
                 ELSE IF outcome = "raise"
                         THEN RepoReturned(<<>>)
                         ELSE IF date_from # 0 \/ date_to # 0
                                 THEN IF DateFilterRaises(prs)
                                         THEN RepoReturned(<<>>)
                                         ELSE RepoReturned(
                                                  FilterPrsByDate(prs))
                                 ELSE RepoReturned(prs)
    /\ UNCHANGED repo_list
    /\ CliFrame

NextCli ==
    \/ UseRepositories
    \/ \E ok \in BOOLEAN, n \in 0..MaxCliRepos : ListOrganizationRepos(ok, n)
    \/ \E outcome \in {"ok", "nonzero", "raise"}, out \in QueryOutputs :
          SearchPrsGlobally(outcome, out)
    \/ \E outcome \in {"ok", "nonzero", "raise"}, out \in QueryOutputs :
          QueryState(outcome, out)

SpecCli == InitCli /\ [][NextCli]_vars

\* --- properties of the CLI analyzer ------------------------------------

\* C8 as stated: with include_closed and include_merged both true, no
\* 'merged' and no 'open' query is ever issued.
C8_OnlyClosedQueried ==
    (include_closed /\ include_merged) =>
        \A j \in 1..Len(query_log) : query_log[j].state = "closed"

\* C8 as amended: with include_closed and include_merged both true, a
\* repository is queried for 'closed' first, a further state is queried
\* only after every earlier query of that repository exited non-zero, and
\* so at most one query per repository delivers PRs.
C8_LaterStateOnlyAfterFailure ==
    (include_closed /\ include_merged) =>
        /\ Len(query_log) <= 3
        /\ \A j \in 1..Len(query_log) :
              /\ query_log[j].state = <<"closed", "merged", "open">>[j]
              /\ j < Len(query_log) => query_log[j].outcome = "nonzero"

\* The 'closed' query succeeded for the first repository and the fetch
\* went on to the next repository without asking for 'merged' or 'open'.
C8_Witness ==
    /\ include_closed
    /\ include_merged
    /\ kpc = "repos"
    /\ kri = 2
    /\ ksi = 1
    /\ query_log = <<[repo |-> 1, state |-> "closed", outcome |-> "ok"]>>
    /\ Len(acc) > 0

\* s is in descending order of created_at.
SortedDesc(s) ==
    \A j \in 1..Len(s) - 1 : s[j].created_at >= s[j + 1].created_at

\* C9 as stated: with max_prs set, every returned list is in descending
\* order of created_at and has at most max_prs records.
C9_SortedAndLimited ==
    (kpc = "done" /\ cli_max_prs # 0) =>
        /\ SortedDesc(cli_result)
        /\ Len(cli_result) <= cli_max_prs

\* C9 as amended: with a positive max_prs the returned list has at most
\* max_prs records, and with the repository-list or organization strategy
\* it is in descending order of created_at.
C9_LimitedAndSortedPerRepo ==
    (kpc = "done" /\ cli_max_prs > 0) =>
        /\ Len(cli_result) <= cli_max_prs
        /\ strategy # "global" => SortedDesc(cli_result)

\* More PRs than max_prs were collected out of order, and the newest
\* max_prs of them were returned.
C9_Witness ==
    /\ kpc = "done"
    /\ strategy # "global"
    /\ cli_max_prs = 2
    /\ Len(acc) > cli_max_prs
    /\ ~SortedDesc(acc)
    /\ Len(cli_result) = cli_max_prs
    /\ cli_result[1].created_at > cli_result[2].created_at

\* ===================================================================
\* Enhancement script
\* ===================================================================

\* A URL is its scheme and host followed by the path segments that "/"
\* separates.
UrlSamples ==
    { [host |-> "https://github.com", segs |-> <<"acme", "widgets", "pull", "7">>],
      [host |-> "https://github.com", segs |-> <<"acme", "widgets", "issues", "7">>],
      [host |-> "https://gitlab.com", segs |-> <<"acme", "widgets", "pull", "7">>] }

\* The segments \d+ can start to match.
StartsWithDigit(seg) == seg \in {"7", "7abc"}

\* extract_repo_from_url: re.match of
\* https://github\.com/([^/]+)/([^/]+)/pull/\d+ at the start of the URL;
\* <<owner, repo>> or <<>> for None.
ExtractRepoFromUrl(url) ==
    IF /\ url.host = "https://github.com"
       /\ Len(url.segs) >= 4
       /\ url.segs[1] # ""
       /\ url.segs[2] # ""
       /\ url.segs[3] = "pull"
       /\ StartsWithDigit(url.segs[4])
       THEN <<url.segs[1], url.segs[2]>>
       ELSE <<>>

\* The CSV rows: URL, Title and Created At (the other date columns are
\* copied the same way).
CsvRows == [url : UrlSamples, title : 1..MaxText, created : {1, 2}]

\* enhance_pr_data is started on a CSV file.
InitEnhance ==
    /\ rows \in UNION {[1..n -> CsvRows] : n \in 0..MaxRows}
    /\ epc = "rows"
    /\ eidx = 1
    /\ fetch_log = <<>>
    /\ enhanced_prs = <<>>
    /\ json_prs = <<>>
    /\ json_total = 0
    /\ csv_rows = 0
    /\ ScraperIdle
    /\ ClientIdle
    /\ AuthIdle
    /\ CliIdle
    /\ ToolsIdle

\* get_pr_details: the parsed JSON on exit code 0 (an answer of {} is
\* falsy), None on a non-zero exit, a timeout or any other exception.
\* `some` tells whether the value is truthy.
GetPrDetails(outcome, title, created) ==
    IF outcome = "ok"
       THEN [some |-> TRUE, title |-> title, created |-> created]
       ELSE [some |-> FALSE, title |-> 0, created |-> 0]

\* The record built when the CLI answered.
EnhancedRecord(row, details) ==
    [repository |-> ExtractRepoFromUrl(row.url),
     title |-> details.title,
     created_at_iso |-> details.created,
     created_at |-> row.created,
     url |-> row.url,
     enhancement_failed |-> FALSE]

\* The record built from the CSV row alone.
ReducedRecord(row) ==
    [repository |-> ExtractRepoFromUrl(row.url),
     title |-> row.title,
     created_at_iso |-> 0,
     created_at |-> row.created,
     url |-> row.url,
     enhancement_failed |-> TRUE]

\* A loop body that gives up on a row whose enrichment failed.
ProcessRowDroppingFailures(outcome, title, created) ==
    /\ epc = "rows"
    /\ eidx <= Len(rows)
    /\ eidx' = eidx + 1
    /\ IF ExtractRepoFromUrl(rows[eidx].url) = <<>>
          THEN UNCHANGED <<fetch_log, enhanced_prs>>
          ELSE /\ fetch_log' = Append(fetch_log, outcome # "ok")
               /\ enhanced_prs' =
                    IF outcome = "ok"
                       THEN Append(enhanced_prs,
                                   EnhancedRecord(rows[eidx],
                                       GetPrDetails(outcome, title, created)))
                       ELSE enhanced_prs
    /\ UNCHANGED <<rows, epc, json_prs, json_total, csv_rows>>
    /\ UNCHANGED nonEnhanceVars

\* One pass of the loop over the CSV rows: a row whose URL does not parse
\* is skipped with a warning; otherwise get_pr_details is called and the
\* enhanced or the reduced record appended.
ProcessRow(outcome, title, created) ==
    /\ epc = "rows"
    /\ eidx <= Len(rows)
    /\ eidx' = eidx + 1
    /\ IF ExtractRepoFromUrl(rows[eidx].url) = <<>>
          THEN UNCHANGED <<fetch_log, enhanced_prs>>
          ELSE /\ fetch_log' =
                    Append(fetch_log,
                           ~GetPrDetails(outcome, title, created).some)
               /\ enhanced_prs' =
                    IF GetPrDetails(outcome, title, created).some
                       THEN Append(enhanced_prs,
                                   EnhancedRecord(rows[eidx],
                                       GetPrDetails(outcome, title, created)))
                       ELSE Append(enhanced_prs, ReducedRecord(rows[eidx]))
    /\ UNCHANGED <<rows, epc, json_prs, json_total, csv_rows>>
    /\ UNCHANGED nonEnhanceVars

\* After the loop: the JSON file with its metadata and the CSV file with
\* one flattened row per record; an I/O error ends the script.
WriteOutputs(ok) ==
    /\ epc = "rows"
    /\ eidx > Len(rows)
    /\ IF ok
          THEN /\ json_prs' = enhanced_prs
               /\ json_total' = Len(enhanced_prs)
               /\ csv_rows' = Len(enhanced_prs)
               /\ epc' = "done"
          ELSE /\ epc' = "crashed"
               /\ UNCHANGED <<json_prs, json_total, csv_rows>>
    /\ UNCHANGED <<rows, eidx, fetch_log, enhanced_prs>>
    /\ UNCHANGED nonEnhanceVars

NextEnhance ==
    \/ \E outcome \in {"ok", "empty", "nonzero", "timeout", "error"},
          title \in 1..MaxText, created \in {1, 2} :
            ProcessRow(outcome, title, created)
    \/ \E ok \in BOOLEAN : WriteOutputs(ok)

SpecEnhance == InitEnhance /\ [][NextEnhance]_vars

\* --- properties of the enhancement script ------------------------------

\* The rows whose URL extract_repo_from_url parses, in file order.
ParsedRows == SelectSeq(rows, LAMBDA row : ExtractRepoFromUrl(row.url) # <<>>)

\* Record k is right for the k-th parsed row: a failed enrichment gives a
\* reduced record flagged enhancement_failed with the row's title and date.
RecordMatchesRow(k) ==
    /\ json_prs[k].url = ParsedRows[k].url
    /\ json_prs[k].created_at = ParsedRows[k].created
    /\ json_prs[k].enhancement_failed = fetch_log[k]
    /\ fetch_log[k] => json_prs[k].title = ParsedRows[k].title

DateArgs == {"none", "valid", "invalid"}

\* The command is invoked: analyze takes --from/--to and the output
\* settings, quick_analysis computes date_from itself and passes no date_to.
InitRun ==
    /\ run_cmd \in {"analyze", "quick"}
    /\ run_from \in (IF run_cmd = "analyze" THEN DateArgs ELSE {"valid"})
    /\ run_to \in (IF run_cmd = "analyze" THEN DateArgs ELSE {"none"})
    /\ out_format \in {"csv", "json", "both"}
    /\ gen_report \in BOOLEAN
    /\ include_summary \in BOOLEAN
    /\ rpc = IF run_cmd = "analyze" THEN "parse_from" ELSE "init"
    /\ gh_check = "pending"
    /\ exit_code = -1
    /\ console = <<>>
    /\ fetch_calls = <<>>
    /\ files = {}
    /\ export_raised = "none"
    /\ LibIdle
    /\ PatIdle
    /\ ExportIdle
    /\ MetricsIdle
    /\ ScoreIdle
    /\ UrlIdle
    /\ StatusIdle

\* What the steps of the command leave alone unless they say otherwise.
RunFrame == UNCHANGED <<run_cmd, run_from, run_to, out_format, gen_report,
                        include_summary>>

\* ctx.exit(1) after an error message.
ExitWith(msg) ==
    /\ console' = Append(console, msg)
    /\ exit_code' = 1
    /\ rpc' = "exited"

\* The `except Exception` of _run_analysis: the message is printed and the
\* function returns, so the command ends with exit status 0.
AnalysisFailed ==
    /\ console' = Append(console, "Analysis failed")
    /\ exit_code' = 0
    /\ rpc' = "done"

\* analyze: strptime of --from.
ParseDateFrom ==
    /\ rpc = "parse_from"
    /\ IF run_from = "invalid"
          THEN ExitWith("Invalid date format")
          ELSE /\ rpc' = "parse_to"
               /\ UNCHANGED <<console, exit_code>>
    /\ RunFrame
    /\ UNCHANGED <<gh_check, fetch_calls, files, export_raised, nonRunVars>>

\* analyze: strptime of --to.
ParseDateTo ==
    /\ rpc = "parse_to"
    /\ IF run_to = "invalid"
          THEN ExitWith("Invalid date format")
          ELSE /\ rpc' = "init"
               /\ UNCHANGED <<console, exit_code>>
    /\ RunFrame
    /\ UNCHANGED <<gh_check, fetch_calls, files, export_raised, nonRunVars>>

\* GitHubCLIAnalyzer(): check_gh_cli runs `gh --version` and then
\* `gh auth status`; a non-zero exit of either (or the missing executable)
\* raises the setup error into the handler of _run_analysis.
CheckGhCli(version_ok, auth_ok) ==
    /\ rpc = "init"
    /\ gh_check' = IF ~version_ok THEN "missing"
                   ELSE IF ~auth_ok THEN "unauthenticated"
                   ELSE "ready"
    /\ IF version_ok /\ auth_ok
          THEN /\ console' = Append(console, "GitHub CLI is ready")
               /\ rpc' = "fetch"
               /\ UNCHANGED exit_code
          ELSE AnalysisFailed
    /\ RunFrame
    /\ UNCHANGED <<fetch_calls, files, export_raised, nonRunVars>>

\* analyzer.get_user_prs(...) with the parsed bounds.
FetchPrs(ok) ==
    /\ rpc = "fetch"
    /\ fetch_calls' = Append(fetch_calls,
                             [from |-> IF run_from = "valid" THEN "parsed"
                                       ELSE "none",
                              to |-> IF run_to = "valid" THEN "parsed"
                                     ELSE "none"])
    /\ IF ok
          THEN /\ rpc' = "exporter"
               /\ UNCHANGED <<console, exit_code>>
          ELSE AnalysisFailed
    /\ RunFrame
    /\ UNCHANGED <<gh_check, files, export_raised, nonRunVars>>

\* DataExporter(output_dir): creates the output directory.
MakeExporter(ok) ==
    /\ rpc = "exporter"
    /\ IF ok
          THEN /\ rpc' = "csv"
               /\ UNCHANGED <<console, exit_code, export_raised>>
          ELSE /\ AnalysisFailed
               /\ export_raised' = "exporter"
    /\ RunFrame
    /\ UNCHANGED <<gh_check, fetch_calls, files, nonRunVars>>

\* The CSV step. outcome: "ok", "raise" (the main file is not written) or
\* "raise_summary" (the main file is written, the summary write raises).
ExportCsvStep(outcome) ==
    /\ rpc = "csv"
    /\ IF out_format \in {"csv", "both"}
          THEN /\ outcome = "raise_summary" => include_summary
               /\ files' = files
                     \cup (IF outcome = "raise" THEN {} ELSE {"csv"})
                     \cup (IF outcome = "ok" /\ include_summary
                              THEN {"csv_summary"} ELSE {})
               /\ IF outcome = "ok"
                     THEN /\ console' = Append(console, "Exported CSV")
                          /\ rpc' = "json"
                          /\ UNCHANGED <<exit_code, export_raised>>
                     ELSE /\ AnalysisFailed
                          /\ export_raised' = "csv"
          ELSE /\ outcome = "ok"
               /\ rpc' = "json"
               /\ UNCHANGED <<files, console, exit_code, export_raised>>
    /\ RunFrame
    /\ UNCHANGED <<gh_check, fetch_calls, nonRunVars>>

\* The JSON step.
ExportJsonStep(ok) ==
    /\ rpc = "json"
    /\ IF out_format \in {"json", "both"}
          THEN IF ok
                  THEN /\ files' = files \cup {"json"}
                       /\ console' = Append(console, "Exported JSON")
                       /\ rpc' = "report"
                       /\ UNCHANGED <<exit_code, export_raised>>
                  ELSE /\ AnalysisFailed
                       /\ export_raised' = "json"
                       /\ UNCHANGED files
          ELSE /\ ok
               /\ rpc' = "report"
               /\ UNCHANGED <<files, console, exit_code, export_raised>>
    /\ RunFrame
    /\ UNCHANGED <<gh_check, fetch_calls, nonRunVars>>

\* The report step, followed by _display_insights and the normal return.
ExportReportStep(ok) ==
    /\ rpc = "report"
    /\ IF gen_report
          THEN IF ok
                  THEN /\ files' = files \cup {"report"}
                       /\ console' = Append(console, "Generated report")
                       /\ exit_code' = 0
                       /\ rpc' = "done"
                       /\ UNCHANGED export_raised
                  ELSE /\ AnalysisFailed
                       /\ export_raised' = "report"
                       /\ UNCHANGED files
          ELSE /\ ok
               /\ exit_code' = 0
               /\ rpc' = "done"
               /\ UNCHANGED <<files, console, export_raised>>
    /\ RunFrame
    /\ UNCHANGED <<gh_check, fetch_calls, nonRunVars>>

NextRun ==
    \/ ParseDateFrom
    \/ ParseDateTo
    \/ \E version_ok \in BOOLEAN, auth_ok \in BOOLEAN :
           CheckGhCli(version_ok, auth_ok)
    \/ \E ok \in BOOLEAN : FetchPrs(ok)
    \/ \E ok \in BOOLEAN : MakeExporter(ok)
    \/ \E outcome \in {"ok", "raise", "raise_summary"} : ExportCsvStep(outcome)
    \/ \E ok \in BOOLEAN : ExportJsonStep(ok)
    \/ \E ok \in BOOLEAN : ExportReportStep(ok)

SpecRun == InitRun /\ [][NextRun]_vars

\* C11: when the GitHub CLI is missing or not authenticated, the analyze or
\* quick-analysis invocation ends with a non-zero exit code and a console
\* message, no PR was fetched and no export file was written.
C11_SetupFailureExitsNonZero ==
    gh_check \in {"missing", "unauthenticated"} =>
        /\ rpc \in {"done", "exited"}
        /\ exit_code > 0
        /\ console # <<>>
        /\ fetch_calls = <<>>
        /\ files = {}

\* ===================================================================
\* analyze command of the PAT tool (commands/analyze.py, core.py)
\* ===================================================================

\* The --export option lists: every list of distinct formats.
ExportFormats == {"csv", "json", "markdown"}
FormatLists ==
    {f \in UNION {[1..n -> ExportFormats] : n \in 0..3} :
        \A i, j \in 1..Len(f) : i # j => f[i] # f[j]}

\* The charts of create_all_visualizations, in the order it creates them.
Charts == <<"timeline", "repository_breakdown", "pr_status", "heatmap",
            "pr_size">>

\* The command is invoked.
InitPat ==
    /\ pat_user \in BOOLEAN
    /\ pat_org \in BOOLEAN
    /\ pat_from \in DateArgs
    /\ pat_to \in DateArgs
    /\ pat_formats \in FormatLists
    /\ pat_visualize \in BOOLEAN
    /\ ppc = "config"
    /\ pat_exit = -1
    /\ pat_console = <<>>
    /\ pat_warnings = <<>>
    /\ pat_trace = <<>>
    /\ pat_bounds = <<>>
    /\ pat_fi = 1
    /\ pat_files = {}
    /\ pat_charts = <<>>
    /\ LibIdle
    /\ RunIdle
    /\ ExportIdle
    /\ MetricsIdle
    /\ ScoreIdle
    /\ UrlIdle
    /\ StatusIdle

\* The options of the invocation do not change while it runs.
PatFrame == UNCHANGED <<pat_user, pat_org, pat_from, pat_to, pat_formats,
                        pat_visualize>>

\* sys.exit(1) after an error message, also the `except Exception` of the
\* command.
PatExit(msg) ==
    /\ pat_console' = Append(pat_console, msg)
    /\ pat_exit' = 1
    /\ ppc' = "exited"

\* A step that neither prints nor exits.
PatGoes(next) ==
    /\ ppc' = next
    /\ UNCHANGED <<pat_console, pat_exit>>

\* load_config and the overrides from the command line.
PatLoadConfig(ok) ==
    /\ ppc = "config"
    /\ pat_trace' = Append(pat_trace, "config")
    /\ IF ok THEN PatGoes("user") ELSE PatExit("Error")
    /\ PatFrame
    /\ UNCHANGED <<pat_warnings, pat_bounds, pat_fi, pat_files, pat_charts,
                   nonPatVars>>

\* The user check with its exit removed.
PatUserCheckSkipped ==
    /\ ppc = "user"
    /\ pat_trace' = Append(pat_trace, "user_check")
    /\ PatGoes("auth")
    /\ PatFrame
    /\ UNCHANGED <<pat_warnings, pat_bounds, pat_fi, pat_files, pat_charts,
                   nonPatVars>>

\* The target user must be known.
PatUserCheck ==
    /\ ppc = "user"
    /\ pat_trace' = Append(pat_trace, "user_check")
    /\ IF pat_user THEN PatGoes("auth") ELSE PatExit("User not specified")
    /\ PatFrame
    /\ UNCHANGED <<pat_warnings, pat_bounds, pat_fi, pat_files, pat_charts,
                   nonPatVars>>

\* AuthManager().get_auth_token: a token, no token, or an exception.
PatAuthenticate(outcome) ==
    /\ ppc = "auth"
    /\ pat_trace' = Append(pat_trace, IF outcome = "token" THEN "auth"
                                      ELSE "auth_failed")
    /\ CASE outcome = "token" -> PatGoes("org")
         [] outcome = "none" -> PatExit("Authentication failed")
         [] OTHER -> PatExit("Error")
    /\ PatFrame
    /\ UNCHANGED <<pat_warnings, pat_bounds, pat_fi, pat_files, pat_charts,
                   nonPatVars>>

\* The organization must be known.
PatOrgCheck ==
    /\ ppc = "org"
    /\ pat_trace' = Append(pat_trace, "org_check")
    /\ IF pat_org THEN PatGoes("client")
                  ELSE PatExit("Organization not specified")
    /\ PatFrame
    /\ UNCHANGED <<pat_warnings, pat_bounds, pat_fi, pat_files, pat_charts,
                   nonPatVars>>

\* PRAnalyser(app_config) constructs the REST client.
PatMakeAnalyser ==
    /\ ppc = "client"
    /\ pat_trace' = Append(pat_trace, "client")
    /\ PatGoes("parse")
    /\ PatFrame
    /\ UNCHANGED <<pat_warnings, pat_bounds, pat_fi, pat_files, pat_charts,
                   nonPatVars>>

\* A date string as PRAnalyser.analyze parses it: an invalid one becomes
\* None.
ParsedBound(arg) == IF arg = "valid" THEN "parsed" ELSE "none"

\* PRAnalyser.analyze, the date range: an invalid string is logged as a
\* warning and ignored.
PatParseDates ==
    /\ ppc = "parse"
    /\ pat_warnings' =
          pat_warnings
          \o (IF pat_from = "invalid" THEN <<"date_from ignored">> ELSE <<>>)
          \o (IF pat_to = "invalid" THEN <<"date_to ignored">> ELSE <<>>)
    /\ PatGoes("repos")
    /\ PatFrame
    /\ UNCHANGED <<pat_trace, pat_bounds, pat_fi, pat_files, pat_charts,
                   nonPatVars>>

\* get_organization_repositories: repositories, none (also after a
\* GithubException, which it turns into []), or another exception.
PatFetchRepos(outcome) ==
    /\ ppc = "repos"
    /\ pat_trace' = Append(pat_trace, "repos")
    /\ CASE outcome = "some" -> PatGoes("prs")
         [] outcome = "empty" -> PatGoes("export")
         [] OTHER -> PatExit("Error")
    /\ PatFrame
    /\ UNCHANGED <<pat_warnings, pat_bounds, pat_fi, pat_files, pat_charts,
                   nonPatVars>>

\* get_user_pull_requests with the parsed bounds.
PatFetchPrs(ok) ==
    /\ ppc = "prs"
    /\ pat_trace' = Append(pat_trace, "prs")
    /\ pat_bounds' = Append(pat_bounds, [from |-> ParsedBound(pat_from),
                                         to |-> ParsedBound(pat_to)])
    /\ IF ok THEN PatGoes("commits") ELSE PatExit("Error")
    /\ PatFrame
    /\ UNCHANGED <<pat_warnings, pat_fi, pat_files, pat_charts, nonPatVars>>

\* get_user_commits with the parsed bounds.
PatFetchCommits(ok) ==
    /\ ppc = "commits"
    /\ pat_trace' = Append(pat_trace, "commits")
    /\ pat_bounds' = Append(pat_bounds, [from |-> ParsedBound(pat_from),
                                         to |-> ParsedBound(pat_to)])
    /\ IF ok THEN PatGoes("export") ELSE PatExit("Error")
    /\ PatFrame
    /\ UNCHANGED <<pat_warnings, pat_fi, pat_files, pat_charts, nonPatVars>>

\* export_results, one turn of its loop: the export of one format, whose
\* exception is logged; after the last format the command goes on.
PatExportFormat(ok) ==
    /\ ppc = "export"
    /\ IF pat_fi <= Len(pat_formats)
          THEN /\ pat_files' = IF ok THEN pat_files \cup {pat_formats[pat_fi]}
                                     ELSE pat_files
               /\ pat_warnings' = IF ok THEN pat_warnings
                                  ELSE Append(pat_warnings, "export error")
               /\ pat_fi' = pat_fi + 1
               /\ PatGoes("export")
          ELSE /\ ok
               /\ PatGoes("visualize")
               /\ UNCHANGED <<pat_files, pat_warnings, pat_fi>>
    /\ PatFrame
    /\ UNCHANGED <<pat_trace, pat_bounds, pat_charts, nonPatVars>>

\* The files create_all_visualizations returns when the charts in `raising`
\* raise and those in `empty` have no data: each chart is attempted in its
\* own try block.
CreateAllVisualizations(raising, empty) ==
    SelectSeq(Charts, LAMBDA c : c \notin raising /\ c \notin empty)

\* create_visualizations when enabled, then the closing message.
PatVisualize(raising, empty) ==
    /\ ppc = "visualize"
    /\ IF pat_visualize
          THEN /\ pat_charts' = CreateAllVisualizations(raising, empty)
               /\ pat_warnings' =
                     pat_warnings
                     \o SelectSeq(Charts, LAMBDA c : c \in raising)
          ELSE /\ raising = {} /\ empty = {}
               /\ UNCHANGED <<pat_charts, pat_warnings>>
    /\ pat_console' = Append(pat_console, "Analysis complete")
    /\ pat_exit' = 0
    /\ ppc' = "done"
    /\ PatFrame
    /\ UNCHANGED <<pat_trace, pat_bounds, pat_fi, pat_files, nonPatVars>>

NextPat ==
    \/ \E ok \in BOOLEAN : PatLoadConfig(ok)
    \/ PatUserCheck
    \/ \E outcome \in {"token", "none", "raise"} : PatAuthenticate(outcome)
    \/ PatOrgCheck
    \/ PatMakeAnalyser
    \/ PatParseDates
    \/ \E outcome \in {"some", "empty", "raise"} : PatFetchRepos(outcome)
    \/ \E ok \in BOOLEAN : PatFetchPrs(ok)
    \/ \E ok \in BOOLEAN : PatFetchCommits(ok)
    \/ \E ok \in BOOLEAN : PatExportFormat(ok)
    \/ \E raising \in SUBSET Range(Charts) :
           \E empty \in SUBSET (Range(Charts) \ raising) :
               PatVisualize(raising, empty)

SpecPat == InitPat /\ [][NextPat]_vars

\* C12: a --from or --to string that is not in YYYY-MM-DD form ends the
\* invocation with a non-zero exit and an error message, and nothing is
\* fetched with the invalid bound dropped.
C12_InvalidDateExitsNonZero ==
    (pat_from = "invalid" \/ pat_to = "invalid") =>
        /\ pat_bounds = <<>>
        /\ ppc = "done" => pat_exit > 0

\* C13: a failure while writing one export format does not prevent the
\* other requested formats from being produced; here for an analyze run of
\* the CLI scraper in which CSV, JSON and the report are all requested.
C13_ExportFailureIsolated ==
    (/\ rpc = "done"
     /\ out_format = "both"
     /\ gen_report
     /\ export_raised \in {"csv", "json", "report"})
        => ({"csv", "json", "report"} \ {export_raised}) \subseteq files

\* The steps of the PAT command that access the credential store or prompt.
AuthSteps == {"auth", "auth_failed"}

\* The steps of the PAT command that fetch from the API.
FetchSteps == {"repos", "prs", "commits"}

\* The PAT command has terminated.
PatEnded == ppc \in {"done", "exited"}

\* C15: the PAT analyze command runs the user check, the authentication,
\* the organization check and the analysis in this order: a missing user
\* exits non-zero before any credential-store access or prompt, and a
\* failed authentication or a missing organization exits non-zero before
\* the REST client is constructed or any repository is fetched.
C15_ChecksBeforeAnalysis ==
    /\ ~pat_user =>
          /\ Range(pat_trace) \cap AuthSteps = {}
          /\ PatEnded => pat_exit > 0
    /\ ("auth_failed" \in Range(pat_trace) \/ ~pat_org) =>
          /\ Range(pat_trace) \cap ({"client"} \cup FetchSteps) = {}
          /\ PatEnded => pat_exit > 0
    /\ \A k \in 1..Len(pat_trace) :
          /\ pat_trace[k] \in AuthSteps =>
                \E j \in 1..(k - 1) : pat_trace[j] = "user_check"
          /\ pat_trace[k] = "org_check" =>
                \E j \in 1..(k - 1) : pat_trace[j] = "auth"
          /\ pat_trace[k] = "client" =>
                \E j \in 1..(k - 1) : pat_trace[j] = "org_check"
          /\ pat_trace[k] \in FetchSteps =>
                \E j \in 1..(k - 1) : pat_trace[j] = "client"

\* A run that authenticated and then exited because no organization is
\* known.
C15_Witness ==
    /\ pat_user
    /\ ~pat_org
    /\ ppc = "exited"
    /\ pat_exit = 1
    /\ pat_trace = <<"config", "user_check", "auth", "org_check">>

\* A run that exited at the user check.
C15_WitnessNoUser ==
    /\ ~pat_user
    /\ ppc = "exited"
    /\ pat_trace = <<"config", "user_check">>

\* ===================================================================
\* Default export filenames (github_pr_scraper/exporter.py and
\* pr_analyser/exporter.py)
\* ===================================================================

\* DataExporter's default filename: a prefix that depends on the format and
\* datetime.now().strftime("%Y%m%d_%H%M%S"), which keeps whole seconds.
ScraperFilename(kind, t) ==
    [tool |-> "scraper", kind |-> kind, stamp |-> t \div TicksPerSecond,
     user |-> 0]

\* Exporter's filename: a prefix that depends on the format and the
\* analysed user; it holds no timestamp.
PatFilename(kind, user) ==
    [tool |-> "pat", kind |-> kind, stamp |-> 0, user |-> user]

\* Exports run on one output directory; the runs they belong to may be the
\* same, concurrent or successive.
InitExport ==
    /\ xnow = 0
    /\ xcount = 0
    /\ xfiles = {}
    /\ overwritten = {}
    /\ LibIdle
    /\ RunIdle
    /\ PatIdle
    /\ MetricsIdle
    /\ ScoreIdle
    /\ UrlIdle
    /\ StatusIdle

\* Time passes.
ExportTick ==
    /\ xnow < MaxTicks
    /\ xnow' = xnow + 1
    /\ UNCHANGED <<xcount, xfiles, overwritten, nonExportVars>>

\* open(path, 'w'): the file is created, or truncated and rewritten.
WriteFile(path) ==
    /\ xcount' = xcount + 1
    /\ xfiles' = {f \in xfiles : f.path # path}
                     \cup {[path |-> path, by |-> xcount + 1]}
    /\ overwritten' = overwritten \cup {f.by : f \in {g \in xfiles :
                                                         g.path = path}}
    /\ UNCHANGED <<xnow, nonExportVars>>

\* export_csv, export_json or export_analysis_report without a filename.
ScraperExport(kind) ==
    /\ xcount < MaxExports
    /\ WriteFile(ScraperFilename(kind, xnow))

\* export_to_csv, export_to_json or export_to_markdown.
PatExport(kind, user) ==
    /\ xcount < MaxExports
    /\ WriteFile(PatFilename(kind, user))

NextExport ==
    \/ ExportTick
    \/ \E kind \in {"csv", "json", "report"} : ScraperExport(kind)
    \/ \E kind \in ExportFormats, user \in 1..MaxPatUsers :
           PatExport(kind, user)

SpecExport == InitExport /\ [][NextExport]_vars

\* C14: no export overwrites a file written by an earlier export; any two
\* exports that use the default filename write to different paths.
C14_NoOverwrite ==
    /\ overwritten = {}
    /\ Cardinality(xfiles) = xcount

\* ===================================================================
\* AnalysisResult properties (pr_analyser/models.py) and
\* DataAnalyzer.calculate_contribution_metrics (pr_analyser/analyzer.py)
\* ===================================================================

\* Repositories are 1..MaxMetricRepos; 0 stands for the empty name.
MetricRepos == 1..MaxMetricRepos

\* The values a line or file count takes.
LineCounts == {0, 1}

\* A PR of repository 1 with nothing changed.
PlainPr ==
    [repository |-> 1, state |-> "open", merged |-> FALSE, additions |-> 0,
     deletions |-> 0, changed_files |-> 0]

\* A commit of repository 1, authored today, with nothing changed.
PlainCommit ==
    [repository |-> 1, age |-> 0, additions |-> 0, deletions |-> 0,
     files_changed |-> 0]

\* All lists of at most n elements of S.
ListsOf(S, n) == UNION {[1..k -> S] : k \in 0..n}

\* PRs that differ in state and merged flag.
StatePrs ==
    {[PlainPr EXCEPT !.state = s, !.merged = g] :
        s \in {"open", "closed"}, g \in BOOLEAN}

\* PRs and commits that differ in their line and file counts.
SizedPrs ==
    {[PlainPr EXCEPT !.additions = a, !.deletions = d, !.changed_files = f] :
        a \in LineCounts, d \in LineCounts, f \in LineCounts}
SizedCommits ==
    {[PlainCommit EXCEPT !.additions = a, !.deletions = d,
                         !.files_changed = f] :
        a \in LineCounts, d \in LineCounts, f \in LineCounts}

\* PRs and commits that differ in their repository.
RepoPrs == {[PlainPr EXCEPT !.repository = r] : r \in MetricRepos}
RepoCommits == {[PlainCommit EXCEPT !.repository = r] : r \in MetricRepos}

\* Commits that differ in the day they were authored.
DatedCommits == {[PlainCommit EXCEPT !.age = a] : a \in 0..MaxAge}

\* An analysis result exists. Its PRs and commits vary in one respect at a
\* time: state and merged flag, sizes, repositories, or commit dates.
InitMetrics ==
    /\ \/ /\ m_prs \in ListsOf(StatePrs, MaxMetricRows + 1)
          /\ m_commits = <<>>
       \/ /\ m_prs \in ListsOf(SizedPrs, MaxMetricRows)
          /\ m_commits \in ListsOf(SizedCommits, MaxMetricRows)
       \/ /\ m_prs \in ListsOf(RepoPrs, MaxMetricRows)
          /\ m_commits \in ListsOf(RepoCommits, MaxMetricRows)
       \/ /\ m_prs = <<>>
          /\ m_commits \in ListsOf(DatedCommits, MaxStreakCommits)
    /\ props = [computed |-> FALSE]
    /\ metrics = [computed |-> FALSE]
    /\ breakdown = [computed |-> FALSE]
    /\ LibIdle
    /\ RunIdle
    /\ PatIdle
    /\ ExportIdle
    /\ ScoreIdle
    /\ UrlIdle
    /\ StatusIdle

\* sum(...) over a list of numbers.
RECURSIVE SumSeq(_)
SumSeq(s) == IF s = <<>> THEN 0 ELSE Head(s) + SumSeq(Tail(s))

\* PRData.status: "merged" when the merged flag is set, the raw state
\* otherwise.
PrStatus(pr) == IF pr.merged THEN "merged" ELSE pr.state

\* AnalysisResult.closed_prs with `and not pr.merged` left out.
CountedClosedIgnoringMerged(pr) == pr.state = "closed"

\* The condition under which AnalysisResult.closed_prs counts a PR.
CountedClosed(pr) == pr.state = "closed" /\ ~pr.merged

\* The condition under which AnalysisResult.merged_prs counts a PR.
CountedMerged(pr) == pr.merged

\* AnalysisResult.merged_prs, open_prs and closed_prs.
MergedPrs(prs) ==
    SumSeq([k \in 1..Len(prs) |-> IF CountedMerged(prs[k]) THEN 1 ELSE 0])
OpenPrs(prs) ==
    SumSeq([k \in 1..Len(prs) |-> IF prs[k].state = "open" THEN 1 ELSE 0])
ClosedPrs(prs) ==
    SumSeq([k \in 1..Len(prs) |-> IF CountedClosed(prs[k]) THEN 1 ELSE 0])

\* The properties of the result are read.
ReadProperties ==
    /\ ~props.computed
    /\ props' = [computed |-> TRUE,
                 merged_prs |-> MergedPrs(m_prs),
                 open_prs |-> OpenPrs(m_prs),
                 closed_prs |-> ClosedPrs(m_prs),
                 total_lines_added |->
                     SumSeq([k \in 1..Len(m_prs) |-> m_prs[k].additions])]
    /\ UNCHANGED <<m_prs, m_commits, metrics, breakdown, nonMetricsVars>>

\* max(a, b) with the two sums added instead.
HigherOfAdded(a, b) == a + b

\* max(a, b).
HigherOf(a, b) == IF b > a THEN b ELSE a

\* The unique dates of the commits, latest first, as ages in days.
RECURSIVE SortedAges(_)
SortedAges(S) ==
    IF S = {} THEN <<>>
    ELSE LET a == CHOOSE x \in S : \A y \in S : x <= y
         IN <<a>> \o SortedAges(S \ {a})

\* The loop of _calculate_contribution_streak from the k-th date on:
\* current_date - commit_date == timedelta(days=streak), where cur is the
\* age of current_date.
RECURSIVE StreakLoop(_, _, _, _)
StreakLoop(dates, k, streak, cur) ==
    IF k > Len(dates) THEN streak
    ELSE IF dates[k] - cur = streak
            THEN StreakLoop(dates, k + 1, streak + 1, dates[k])
            ELSE streak

\* _calculate_contribution_streak.
ContributionStreak(commits) ==
    IF commits = <<>> THEN 0
    ELSE StreakLoop(SortedAges({commits[k].age : k \in 1..Len(commits)}),
                    1, 0, 0)

\* The repositories Counter(list(pr_repos) + list(commit_repos))
\* .most_common(1) may return: the first key with the highest count in
\* insertion order, where each of the two sets is listed in an arbitrary
\* order and a repository counts once per set it is in.
MostActiveCandidates(prs, commits) ==
    LET pr_repos == {prs[k].repository : k \in 1..Len(prs)}
        commit_repos == {commits[k].repository : k \in 1..Len(commits)}
    IN  IF pr_repos \cap commit_repos # {} THEN pr_repos \cap commit_repos
        ELSE IF pr_repos # {} THEN pr_repos
        ELSE commit_repos

\* calculate_contribution_metrics; most_active is the repository the
\* frequency count puts first.
CalculateContributionMetrics(most_active) ==
    /\ ~metrics.computed
    /\ LET prs_created == Len(m_prs)
           commits_made == Len(m_commits)
           PrSum(F(_)) == SumSeq([k \in 1..Len(m_prs) |-> F(m_prs[k])])
           CommitSum(F(_)) ==
               SumSeq([k \in 1..Len(m_commits) |-> F(m_commits[k])])
       IN  IF m_prs = <<>> /\ m_commits = <<>>
              THEN /\ most_active = 0
                   /\ metrics' = [computed |-> TRUE,
                                  total_contributions |-> 0,
                                  prs_created |-> 0, prs_merged |-> 0,
                                  prs_closed |-> 0, commits_made |-> 0,
                                  lines_added |-> 0, lines_deleted |-> 0,
                                  files_modified |-> 0,
                                  most_active_repository |-> 0,
                                  contribution_streak |-> 0]
              ELSE /\ most_active \in MostActiveCandidates(m_prs, m_commits)
                   /\ metrics' =
                        [computed |-> TRUE,
                         total_contributions |-> prs_created + commits_made,
                         prs_created |-> prs_created,
                         prs_merged |->
                             PrSum(LAMBDA p : IF PrStatus(p) = "merged"
                                              THEN 1 ELSE 0),
                         prs_closed |->
                             PrSum(LAMBDA p : IF PrStatus(p) = "closed"
                                              THEN 1 ELSE 0),
                         commits_made |-> commits_made,
                         lines_added |->
                             HigherOf(PrSum(LAMBDA p : p.additions),
                                      CommitSum(LAMBDA c : c.additions)),
                         lines_deleted |->
                             HigherOf(PrSum(LAMBDA p : p.deletions),
                                      CommitSum(LAMBDA c : c.deletions)),
                         files_modified |->
                             HigherOf(PrSum(LAMBDA p : p.changed_files),
                                      CommitSum(LAMBDA c : c.files_changed)),
                         most_active_repository |-> most_active,
                         contribution_streak |-> ContributionStreak(m_commits)]
    /\ UNCHANGED <<m_prs, m_commits, props, breakdown, nonMetricsVars>>

\* The keys of groupby('repository'), in ascending order.
RECURSIVE GroupKeys(_)
GroupKeys(S) ==
    IF S = {} THEN <<>>
    ELSE LET r == CHOOSE x \in S : \A y \in S : x <= y
         IN <<r>> \o GroupKeys(S \ {r})

\* The sort key of get_repository_breakdown with the commits left out.
ContributionCountPrsOnly(stats) == stats.prs

\* The sort key of get_repository_breakdown: x[1]['prs'] + x[1]['commits'].
ContributionCount(stats) == stats.prs + stats.commits

\* sorted(items, key=..., reverse=True): the highest key first, items with
\* equal keys in the order they had.
RECURSIVE SortedRepos(_)
SortedRepos(items) ==
    IF items = <<>> THEN <<>>
    ELSE LET k == CHOOSE i \in 1..Len(items) :
                    /\ \A j \in 1..Len(items) :
                           ContributionCount(items[i])
                               >= ContributionCount(items[j])
                    /\ \A j \in 1..(i - 1) :
                           ContributionCount(items[j])
                               < ContributionCount(items[i])
         IN  <<items[k]>>
             \o SortedRepos([j \in 1..(Len(items) - 1) |->
                                IF j < k THEN items[j] ELSE items[j + 1]])

\* repo_stats after the two loops of get_repository_breakdown, in insertion
\* order: the repositories of the PRs, then the repositories that only
\* commits name.
RepoStats(prs, commits) ==
    LET pr_repos == {prs[k].repository : k \in 1..Len(prs)}
        commit_repos == {commits[k].repository : k \in 1..Len(commits)}
        keys == GroupKeys(pr_repos) \o GroupKeys(commit_repos \ pr_repos)
        PrSum(r, F(_)) ==
            SumSeq([k \in 1..Len(prs) |->
                       IF prs[k].repository = r THEN F(prs[k]) ELSE 0])
        CommitSum(r, F(_)) ==
            SumSeq([k \in 1..Len(commits) |->
                       IF commits[k].repository = r THEN F(commits[k])
                       ELSE 0])
    IN  [i \in 1..Len(keys) |->
            [repo |-> keys[i],
             prs |-> PrSum(keys[i], LAMBDA p : 1),
             commits |-> CommitSum(keys[i], LAMBDA c : 1),
             lines_added |->
                 HigherOf(PrSum(keys[i], LAMBDA p : p.additions),
                          CommitSum(keys[i], LAMBDA c : c.additions)),
             lines_deleted |->
                 HigherOf(PrSum(keys[i], LAMBDA p : p.deletions),
                          CommitSum(keys[i], LAMBDA c : c.deletions)),
             files_changed |->
                 HigherOf(PrSum(keys[i], LAMBDA p : p.changed_files),
                          CommitSum(keys[i], LAMBDA c : c.files_changed))]]

\* get_repository_breakdown: the empty map when there are neither PRs nor
\* commits.
GetRepositoryBreakdown ==
    /\ ~breakdown.computed
    /\ IF m_prs = <<>> /\ m_commits = <<>>
          THEN breakdown' = [computed |-> TRUE, empty |-> TRUE]
          ELSE LET sorted_repos == SortedRepos(RepoStats(m_prs, m_commits))
               IN  breakdown' =
                       [computed |-> TRUE, empty |-> FALSE,
                        repositories |-> sorted_repos,
                        total_repositories |-> Len(sorted_repos),
                        most_active |->
                            IF sorted_repos # <<>> THEN sorted_repos[1].repo
                            ELSE 0]
    /\ UNCHANGED <<m_prs, m_commits, props, metrics, nonMetricsVars>>

NextMetrics ==
    \/ ReadProperties
    \/ \E most_active \in {0} \cup MetricRepos :
           CalculateContributionMetrics(most_active)

SpecMetrics == InitMetrics /\ [][NextMetrics]_vars

\* C16: no pull request is counted in both merged_prs and closed_prs:
\* closed_prs counts exactly the PRs with raw state 'closed' and merged flag
\* false, and merged_prs exactly the PRs with the merged flag set.
C16_MergedAndClosedExclusive ==
    props.computed =>
        LET merged == {k \in 1..Len(m_prs) : m_prs[k].merged}
            closed == {k \in 1..Len(m_prs) :
                          m_prs[k].state = "closed" /\ ~m_prs[k].merged}
        IN  /\ props.merged_prs = Cardinality(merged)
            /\ props.closed_prs = Cardinality(closed)
            /\ props.merged_prs + props.closed_prs <= Len(m_prs)
            /\ \A k \in 1..Len(m_prs) :
                   ~(CountedMerged(m_prs[k]) /\ CountedClosed(m_prs[k]))

\* The properties of a result that holds a merged PR whose raw state is
\* 'closed', a PR closed without merging and an open PR.
C16_Witness ==
    /\ props.computed
    /\ Len(m_prs) = 3
    /\ \E k \in 1..3 : m_prs[k].merged /\ m_prs[k].state = "closed"
    /\ \E k \in 1..3 : ~m_prs[k].merged /\ m_prs[k].state = "closed"
    /\ \E k \in 1..3 : ~m_prs[k].merged /\ m_prs[k].state = "open"
    /\ props.merged_prs = 1
    /\ props.closed_prs = 1

\* C17: calculate_contribution_metrics reports lines_added, lines_deleted
\* and files_modified each as the maximum of the PR-side sum and the
\* commit-side sum, and total_contributions as prs_created + commits_made.
C17_MaxOfSumsAndTotal ==
    metrics.computed =>
        LET Max(a, b) == IF a >= b THEN a ELSE b
            pr_add == SumSeq([k \in 1..Len(m_prs) |-> m_prs[k].additions])
            pr_del == SumSeq([k \in 1..Len(m_prs) |-> m_prs[k].deletions])
            pr_files ==
                SumSeq([k \in 1..Len(m_prs) |-> m_prs[k].changed_files])
            c_add ==
                SumSeq([k \in 1..Len(m_commits) |-> m_commits[k].additions])
            c_del ==
                SumSeq([k \in 1..Len(m_commits) |-> m_commits[k].deletions])
            c_files ==
                SumSeq([k \in 1..Len(m_commits) |->
                            m_commits[k].files_changed])
        IN  /\ metrics.lines_added = Max(pr_add, c_add)
            /\ metrics.lines_deleted = Max(pr_del, c_del)
            /\ metrics.files_modified = Max(pr_files, c_files)
            /\ metrics.prs_created = Len(m_prs)
            /\ metrics.commits_made = Len(m_commits)
            /\ metrics.total_contributions = Len(m_prs) + Len(m_commits)

\* Metrics of a result whose PRs add more lines than its commits (2 against
\* 1) and delete fewer (1 against 2).
C17_Witness ==
    /\ metrics.computed
    /\ Len(m_prs) = 2
    /\ Len(m_commits) = 2
    /\ m_prs[1].additions + m_prs[2].additions = 2
    /\ m_commits[1].additions + m_commits[2].additions = 1
    /\ m_prs[1].deletions + m_prs[2].deletions = 1
    /\ m_commits[1].deletions + m_commits[2].deletions = 2
    /\ metrics.lines_added = 2
    /\ metrics.lines_deleted = 2
    /\ metrics.total_contributions = 4

\* The number of PR rows plus commit rows of a repository.
RowCount(repo) ==
    Cardinality({k \in 1..Len(m_prs) : m_prs[k].repository = repo})
    + Cardinality({k \in 1..Len(m_commits) : m_commits[k].repository = repo})

\* C18: most_active_repository is the repository with the highest combined
\* number of PR rows plus commit rows.
C18_MostActiveHasMostRows ==
    (metrics.computed /\ metrics.most_active_repository # 0) =>
        \A repo \in MetricRepos :
            RowCount(metrics.most_active_repository) >= RowCount(repo)

\* The number of consecutive days, ending today, on each of which a commit
\* was authored.
DaysInARow ==
    LET ages == {m_commits[k].age : k \in 1..Len(m_commits)}
        runs == {n \in 0..(MaxAge + 1) : \A a \in 0..(n - 1) : a \in ages}
    IN  CHOOSE n \in runs : \A o \in runs : o <= n

\* C19: contribution_streak is the number of consecutive calendar days,
\* ending today, on each of which at least one commit was authored; it is 0
\* when there are no commits.
C19_StreakCountsConsecutiveDays ==
    metrics.computed => metrics.contribution_streak = DaysInARow

\* ===================================================================
\* GitHubPRData.complexity_score (github_pr_scraper/models.py)
\* ===================================================================

\* Values of the integer fields; the model accepts any integer, so a
\* negative one is included. The caps are reached at 20 files, 2000 lines
\* and 5 review cycles.
FileSamples == {-2, 0, 1, 20, 21}
AdditionSamples == {-300, 0, 1, 1000, 2001}
DeletionSamples == {0, 1, 1000}
CycleSamples == {-1, 0, 1, 5, 6}

\* Values of time_open_hours in hundredths of an hour (the cap is reached
\* at 150 hours), and None.
TimeSamples ==
    {[some |-> FALSE, value |-> 0]}
    \cup {[some |-> TRUE, value |-> v] :
             v \in {-5004, 0, 4, 16, 15000, 15001}}

\* A PR record exists.
InitScore ==
    /\ g_files \in FileSamples
    /\ g_additions \in AdditionSamples
    /\ g_deletions \in DeletionSamples
    /\ g_cycles \in CycleSamples
    /\ g_time \in TimeSamples
    /\ g_score = [computed |-> FALSE]
    /\ LibIdle
    /\ RunIdle
    /\ PatIdle
    /\ ExportIdle
    /\ MetricsIdle
    /\ UrlIdle
    /\ StatusIdle

\* min(a, b).
Lower(a, b) == IF a < b THEN a ELSE b

\* round(score, 2) of a score given in thousandths, in hundredths (no
\* sample lies halfway between two hundredths).
RoundToHundredths(x) == (x + 5) \div 10

\* complexity_score in hundredths; the sum is formed in thousandths:
\* 0.5 per file up to 10, 0.01 per line up to 20, 2 per review cycle up to
\* 10, and 0.1 per hour open up to 15 when time_open_hours is truthy.
ComplexityScore(files_changed, additions, deletions, cycles, time) ==
    RoundToHundredths(
        Lower(files_changed * 500, 10000)
        + Lower((additions + deletions) * 10, 20000)
        + Lower(cycles * 2000, 10000)
        + (IF time.some /\ time.value # 0
              THEN Lower(time.value, 15000) ELSE 0))

\* The property is read.
ReadComplexityScore ==
    /\ ~g_score.computed
    /\ g_score' = [computed |-> TRUE,
                   value |-> ComplexityScore(g_files, g_additions,
                                             g_deletions, g_cycles, g_time)]
    /\ UNCHANGED <<g_files, g_additions, g_deletions, g_cycles, g_time,
                   nonScoreVars>>

NextScore == ReadComplexityScore

SpecScore == InitScore /\ [][NextScore]_vars

\* One value of time_open_hours is at most another (None counts as 0 hours).
TimeAtMost(t, u) ==
    (IF t.some THEN t.value ELSE 0) <= (IF u.some THEN u.value ELSE 0)

\* The score does not decrease when one of files changed, total lines
\* changed, review cycles or time open increases and the others stay fixed.
ScoreNeverDecreases ==
    /\ \A f \in FileSamples : f >= g_files =>
          ComplexityScore(f, g_additions, g_deletions, g_cycles, g_time)
              >= g_score.value
    /\ \A a \in AdditionSamples : a >= g_additions =>
          ComplexityScore(g_files, a, g_deletions, g_cycles, g_time)
              >= g_score.value
    /\ \A c \in CycleSamples : c >= g_cycles =>
          ComplexityScore(g_files, g_additions, g_deletions, c, g_time)
              >= g_score.value
    /\ \A t \in TimeSamples : TimeAtMost(g_time, t) =>
          ComplexityScore(g_files, g_additions, g_deletions, g_cycles, t)
              >= g_score.value

\* C20: for any GitHubPRData, complexity_score lies between 0 and 55
\* inclusive, and it never decreases when one of files changed, total lines
\* changed, review cycles or time open increases while the other three stay
\* fixed.
C20_ScoreInRangeAndMonotone ==
    g_score.computed =>
        /\ g_score.value >= 0
        /\ g_score.value <= 5500
        /\ ScoreNeverDecreases

\* The part of C20 that holds for every record: the score is at most 55 and
\* never decreases; it is at least 0 when no field is negative.
C20_AtMost55AndMonotone ==
    g_score.computed =>
        /\ g_score.value <= 5500
        /\ ScoreNeverDecreases
        /\ (/\ g_files >= 0
            /\ g_additions + g_deletions >= 0
            /\ g_cycles >= 0
            /\ g_time.value >= 0) => g_score.value >= 0

\* ===================================================================
\* extract_repo_from_url on its own (enhance_pr_data.py)
\* ===================================================================

\* Scheme-and-host prefixes and path segments of the URLs passed in.
UrlHosts == {"https://github.com", "https://gitlab.com", "http://github.com"}
UrlSegments == {"acme", "widgets", "pull", "issues", "7", "7abc", ""}

\* The URLs passed in: a prefix followed by up to MaxSegments segments.
UrlInputs ==
    [host : UrlHosts,
     segs : UNION {[1..n -> UrlSegments] : n \in 0..MaxSegments}]

\* extract_repo_from_url is about to be called on a URL.
InitUrl ==
    /\ u_url \in UrlInputs
    /\ u_repo = [computed |-> FALSE]
    /\ LibIdle
    /\ RunIdle
    /\ PatIdle
    /\ ExportIdle
    /\ MetricsIdle
    /\ ScoreIdle
    /\ StatusIdle

\* The function is called.
CallExtractRepo ==
    /\ ~u_repo.computed
    /\ u_repo' = [computed |-> TRUE, value |-> ExtractRepoFromUrl(u_url)]
    /\ UNCHANGED <<u_url, nonUrlVars>>

NextUrl == CallExtractRepo

SpecUrl == InitUrl /\ [][NextUrl]_vars

\* The segments that consist of digits only.
AllDigits(seg) == seg = "7"

\* The URL has the shape https://github.com/<owner>/<repo>/pull/<digits>.
ExactPrUrl(url) ==
    /\ url.host = "https://github.com"
    /\ Len(url.segs) = 4
    /\ url.segs[1] # ""
    /\ url.segs[2] # ""
    /\ url.segs[3] = "pull"
    /\ AllDigits(url.segs[4])

\* C21: extract_repo_from_url returns <owner>/<repo> for URLs of the form
\* https://github.com/<owner>/<repo>/pull/<digits> and absent for every URL
\* that is not of this exact shape (other host, other path, or extra text
\* after the PR number).
C21_OnlyExactPrUrls ==
    u_repo.computed =>
        u_repo.value = IF ExactPrUrl(u_url)
                          THEN <<u_url.segs[1], u_url.segs[2]>>
                          ELSE <<>>

\* -------------------------------------------------------------------
\* DataAnalyzer.get_repository_breakdown (pr_analyser/analyzer.py)
\* -------------------------------------------------------------------

\* PRs and commits that differ in their repository and in the lines they
\* add.
BreakdownPrs ==
    {[PlainPr EXCEPT !.repository = r, !.additions = a] :
        r \in MetricRepos, a \in LineCounts}
BreakdownCommits ==
    {[PlainCommit EXCEPT !.repository = r, !.additions = a] :
        r \in MetricRepos, a \in LineCounts}

\* An analysis result exists whose breakdown has not been computed.
InitBreakdown ==
    /\ m_prs \in ListsOf(BreakdownPrs, MaxMetricRows)
    /\ m_commits \in ListsOf(BreakdownCommits, MaxMetricRows)
    /\ props = [computed |-> FALSE]
    /\ metrics = [computed |-> FALSE]
    /\ breakdown = [computed |-> FALSE]
    /\ LibIdle
    /\ RunIdle
    /\ PatIdle
    /\ ExportIdle
    /\ ScoreIdle
    /\ UrlIdle
    /\ StatusIdle

NextBreakdown == GetRepositoryBreakdown

SpecBreakdown == InitBreakdown /\ [][NextBreakdown]_vars

\* C22: get_repository_breakdown lists every repository that a PR or a
\* commit names exactly once, in descending order of its PR count plus its
\* commit count; total_repositories is the number of those repositories and
\* most_active is the first one of the list.
C22_RankedByContributions ==
    (breakdown.computed /\ ~breakdown.empty) =>
        LET listed == breakdown.repositories
            named == {m_prs[k].repository : k \in 1..Len(m_prs)}
                     \cup {m_commits[k].repository : k \in 1..Len(m_commits)}
        IN  /\ {listed[i].repo : i \in 1..Len(listed)} = named
            /\ Len(listed) = Cardinality(named)
            /\ \A i \in 1..Len(listed) :
                   listed[i].prs + listed[i].commits = RowCount(listed[i].repo)
            /\ \A i, j \in 1..Len(listed) :
                   i < j => RowCount(listed[i].repo) >= RowCount(listed[j].repo)
            /\ breakdown.total_repositories = Cardinality(named)
            /\ breakdown.most_active = listed[1].repo

\* A breakdown in which the repository with the higher name comes first: it
\* has one PR and two commits, the other repository one PR.
C22_Witness ==
    /\ breakdown.computed
    /\ ~breakdown.empty
    /\ breakdown.total_repositories = 2
    /\ breakdown.repositories[1].repo = 2
    /\ breakdown.repositories[2].repo = 1
    /\ breakdown.repositories[1].prs = 1
    /\ breakdown.repositories[1].commits = 2
    /\ breakdown.repositories[2].prs = 1
    /\ breakdown.repositories[2].commits = 0
    /\ breakdown.most_active = 2

\* -------------------------------------------------------------------
\* Pages of the browser scraper (github_pr_scraper/scraper.py)
\* -------------------------------------------------------------------

\* C23: a page opened by a scrape task is open only while the task is
\* inside _scrape_single_pr, so it is closed, whether the scrape succeeded
\* or raised, before the task handles the failure or releases its semaphore
\* slot; and once get_user_prs has returned, neither the search page nor
\* any PR page is open.
C23_PagesClosed ==
    /\ \A k \in Tasks :
           tpc[k] \in {"failed", "releasing", "done"} => k \notin pages
    /\ gpc = "returned" => pages = {}

\* get_user_prs has returned after it opened the search page, a PR page
\* whose scrape succeeded and a PR page whose scrape raised.
C23_Witness ==
    /\ gpc = "returned"
    /\ 0 \in opened
    /\ \E k \in opened \ {0} : result[k] = "pr"
    /\ \E k \in opened \ {0} : result[k] = "none"
    /\ pages = {}

\* -------------------------------------------------------------------
\* Declining the stored token (pr_analyser/auth.py)
\* -------------------------------------------------------------------

\* authenticate_interactive read a stored token and the user declined to
\* reuse it.
DeclinedReuse ==
    /\ flow_started
    /\ stored_token # 0
    /\ apc \in {"prompt", "validate", "ask_store"} \/ prompted

\* C24: when a stored token exists and the user declines to reuse it, the
\* stored token is deleted before the prompt for a new one; if the new
\* entry is then empty or fails validation, the call returns absent and no
\* token remains stored for the user.
C24_DeclineDeletesStoredToken ==
    DeclinedReuse =>
        /\ apc = "prompt" => keyring = 0
        /\ (apc = "done" /\ (entered = 0 \/ entered \notin accepted))
               => (ret = 0 /\ ret_source = "absent" /\ keyring = 0)

\* -------------------------------------------------------------------
\* The repository loop of the CLI analyzer (cli_analyzer.py)
\* -------------------------------------------------------------------

\* C25: get_user_prs fetches the repositories in list order, none twice
\* and none skipped; a repository whose fetch failed has no PR in the
\* accumulated list and the run goes on after it, so that the run ends
\* only after the last repository or once the running total has reached a
\* positive max_prs; and no repository is fetched once the running total
\* has reached max_prs.
C25_ListOrderFailuresSkipped ==
    strategy # "global" =>
        /\ Len(visited) <= Len(repo_list)
        /\ \A j \in 1..Len(visited) :
               /\ visited[j].repo = repo_list[j]
               /\ cli_max_prs # 0 => visited[j].before < cli_max_prs
        /\ \A j \in 1..Len(acc) : acc[j].repo \notin cli_failed
        /\ kpc = "done" =>
               \/ Len(visited) = Len(repo_list)
               \/ cli_max_prs # 0 /\ Len(acc) >= cli_max_prs

\* The fetch of the first repository failed, the second repository was
\* fetched all the same and its PRs were returned.
C25_Witness ==
    /\ strategy # "global"
    /\ kpc = "done"
    /\ Len(repo_list) = 2
    /\ cli_failed = {repo_list[1]}
    /\ Len(visited) = 2
    /\ Len(cli_result) > 0
    /\ \A j \in 1..Len(cli_result) : cli_result[j].repo = repo_list[2]

\* The first repository brought the running total to max_prs and the
\* second repository was never fetched.
C25_WitnessCapped ==
    /\ strategy # "global"
    /\ kpc = "done"
    /\ Len(repo_list) = 2
    /\ cli_max_prs # 0
    /\ Len(acc) >= cli_max_prs
    /\ visited = <<[repo |-> repo_list[1], before |-> 0]>>

\* -------------------------------------------------------------------
\* Per-repository failures of the REST client (pr_analyser/github_client.py)
\* -------------------------------------------------------------------

\* C26: in get_user_pull_requests a repository whose PR fetch raised an API
\* failure contributes no PR to the result, and once the PR loop is over it
\* has reached every repository of the list, those after a failed one
\* included.
C26_FailedRepoSkipped ==
    /\ \A j \in 1..Len(client_prs) : client_prs[j] \notin failed_repos
    /\ cpc \in {"commit_repo_pace", "commit_list", "commit_item_pace",
                "commit_detail", "done"}
           => pr_fetched = Range(repositories)

\* The PR loop has reached every repository although the fetch of an
\* earlier one raised.
C26_LaterReposReached ==
    cpc \in {"commit_repo_pace", "commit_list", "commit_item_pace",
             "commit_detail", "done"}
        => pr_fetched = Range(repositories)

\* -------------------------------------------------------------------
\* The request counter of the REST client (pr_analyser/github_client.py)
\* -------------------------------------------------------------------

\* A client object exists and only its _handle_rate_limit is called.
InitRateLimit ==
    /\ requests_per_hour \in 1..MaxRate
    /\ requests_made = 0
    /\ now \in {0, ClockStep}
    /\ last_reset = now
    /\ cpc = "rate_limit"
    /\ repositories = <<>>
    /\ ri = 0
    /\ items_left = 0
    /\ client_prs = <<>>
    /\ client_commits = <<>>
    /\ failed_repos = {}
    /\ pr_fetched = {}
    /\ slept = 0
    /\ paced = FALSE
    /\ unpaced_calls = 0
    /\ calls_in_window = 0
    /\ ScraperIdle
    /\ AuthIdle
    /\ CliIdle
    /\ EnhanceIdle
    /\ ToolsIdle

\* What a step of this client leaves alone.
RateLimitFrame ==
    /\ UNCHANGED <<cpc, repositories, ri, items_left, client_prs,
                   client_commits, failed_repos, pr_fetched>>
    /\ ClientFrame

\* Time passes between two calls; the clock never goes back.
RateLimitTick(step) ==
    /\ cpc = "rate_limit"
    /\ now + step <= MaxClock
    /\ now' = now + step
    /\ UNCHANGED <<requests_made, last_reset, slept, paced, unpaced_calls,
                   calls_in_window>>
    /\ RateLimitFrame

\* self._handle_rate_limit()
CallHandleRateLimit ==
    /\ cpc = "rate_limit"
    /\ now <= MaxClock
    /\ HandleRateLimit
    /\ RateLimitFrame

NextRateLimit ==
    \/ \E step \in {ClockStep \div 2, ClockStep} : RateLimitTick(step)
    \/ CallHandleRateLimit

SpecRateLimit == InitRateLimit /\ [][NextRateLimit]_vars

\* C27: the counter never exceeds requests_per_hour, and every
\* _handle_rate_limit call (the only step that changes requests_made or
\* last_reset) returns with requests_made between 1 and requests_per_hour;
\* a call that finds the counter at the ceiling returns only once the
\* window it found (last_reset + 3600 seconds) is over, with the window
\* restarted at the time of return and the counter at 1, and it sleeps for
\* what was left of that window.
C27_CounterWithinCeiling ==
    /\ [](requests_made \in 0..requests_per_hour)
    /\ [][(requests_made' # requests_made \/ last_reset' # last_reset) =>
             /\ requests_made' \in 1..requests_per_hour
             /\ now' >= now
             /\ requests_made >= requests_per_hour =>
                    /\ now' >= last_reset + Hour
                    /\ last_reset' = now'
                    /\ requests_made' = 1
                    /\ slept' = IF now < last_reset + Hour
                                   THEN last_reset + Hour - now ELSE 0]_vars

\* A call found the counter at a ceiling of two requests part of the way
\* into the window, slept for the rest of it and restarted the window.
C27_Witness ==
    /\ requests_per_hour = 2
    /\ slept > 0
    /\ slept < Hour
    /\ requests_made = 1
    /\ last_reset = now
    /\ paced

\* -------------------------------------------------------------------
\* The counts of a ScrapingResult (github_pr_scraper/scraper.py)
\* -------------------------------------------------------------------

\* The ScrapingResult get_user_prs builds when it returns; pr_urls is
\* counted only if the search bound it.
ReturnedResult ==
    [total_processed |-> IF urls_defined THEN Len(pr_urls) ELSE 0,
     successful_scrapes |-> Cardinality(all_prs),
     failed_scrapes |-> Len(errors),
     errors |-> errors]

\* C28: in every ScrapingResult that get_user_prs returns,
\* successful_scrapes + failed_scrapes = total_processed and failed_scrapes
\* is the number of entries of errors, the run whose search phase failed
\* included.
C28_CountsAddUp ==
    gpc = "returned" =>
        /\ ReturnedResult.successful_scrapes + ReturnedResult.failed_scrapes
               = ReturnedResult.total_processed
        /\ ReturnedResult.failed_scrapes = Len(ReturnedResult.errors)

\* The same for the runs whose search succeeded.
C28_CountsAddUpAfterSearch ==
    (gpc = "returned" /\ urls_defined) =>
        /\ ReturnedResult.successful_scrapes + ReturnedResult.failed_scrapes
               = ReturnedResult.total_processed
        /\ ReturnedResult.failed_scrapes = Len(ReturnedResult.errors)

\* ===================================================================
\* GitHubPRData.status (github_pr_scraper/models.py) over the records the
\* CLI conversion and the browser scraper build
\* ===================================================================

MaxStatusRows == 2

\* What `gh` reports for a PR: the state in capitals ("" when the query
\* does not ask for the field, as in the global search) and whether
\* mergedAt is set.
CliRaw ==
    {[state |-> "OPEN", merged_at |-> 0],
     [state |-> "CLOSED", merged_at |-> 0],
     [state |-> "MERGED", merged_at |-> 1],
     [state |-> "", merged_at |-> 0],
     [state |-> "", merged_at |-> 1]}

\* What a PR page shows: the title of its state badge ("" when the page
\* has no badge); the page gives no merge time.
BrowserRaw ==
    {[state |-> t, merged_at |-> 0] :
        t \in {"Status: Open", "Status: Closed", "Status: Merged", ""}}

\* A run of one of the two sources has fetched some PRs.
InitStatus ==
    /\ s_source \in {"cli", "browser"}
    /\ s_raw \in ListsOf(IF s_source = "cli" THEN CliRaw ELSE BrowserRaw,
                         MaxStatusRows)
    /\ s_prs = [computed |-> FALSE]
    /\ s_stats = [computed |-> FALSE]
    /\ LibIdle
    /\ RunIdle
    /\ PatIdle
    /\ ExportIdle
    /\ MetricsIdle
    /\ ScoreIdle
    /\ UrlIdle

\* str.lower() of the state texts.
LowerCase(text) ==
    CASE text = "OPEN" -> "open"
      [] text = "CLOSED" -> "closed"
      [] text = "MERGED" -> "merged"
      [] text = "Status: Open" -> "status: open"
      [] text = "Status: Closed" -> "status: closed"
      [] text = "Status: Merged" -> "status: merged"
      [] OTHER -> text

\* _convert_to_pr_data: state = pr_json.get('state', 'open').lower();
\* merged_at is parsed when mergedAt is given.
CliState(raw) == LowerCase(IF raw.state = "" THEN "open" ELSE raw.state)

\* _extract_basic_info: "open" unless the badge's title, in lower case,
\* contains "merged" or "closed".
BrowserState(raw) ==
    IF raw.state = "" THEN "open"
    ELSE IF LowerCase(raw.state) = "status: merged" THEN "merged"
    ELSE IF LowerCase(raw.state) = "status: closed" THEN "closed"
    ELSE "open"

\* The records are built; the browser scraper leaves merged_at at None.
ConvertRecords ==
    /\ ~s_prs.computed
    /\ s_prs' =
         [computed |-> TRUE,
          value |-> [k \in 1..Len(s_raw) |->
                        IF s_source = "cli"
                           THEN [state |-> CliState(s_raw[k]),
                                 merged_at |-> s_raw[k].merged_at]
                           ELSE [state |-> BrowserState(s_raw[k]),
                                 merged_at |-> 0]]]
    /\ UNCHANGED <<s_source, s_raw, s_stats, nonStatusVars>>

\* GitHubPRData.status
Status(pr) ==
    IF pr.state = "closed" /\ pr.merged_at # 0 THEN "merged"
    ELSE IF pr.state = "closed" THEN "closed"
    ELSE "open"

\* calculate_summary_stats: the counts by status ({} for an empty list).
CalculateSummaryStats ==
    /\ s_prs.computed
    /\ ~s_stats.computed
    /\ LET prs == s_prs.value
           Count(st) == Cardinality({k \in 1..Len(prs) : Status(prs[k]) = st})
       IN  s_stats' =
               IF prs = <<>>
                  THEN [computed |-> TRUE, empty |-> TRUE]
                  ELSE [computed |-> TRUE, empty |-> FALSE,
                        total_prs |-> Len(prs),
                        merged_prs |-> Count("merged"),
                        closed_prs |-> Count("closed"),
                        open_prs |-> Count("open")]
    /\ UNCHANGED <<s_source, s_raw, s_prs, nonStatusVars>>

NextStatus ==
    \/ ConvertRecords
    \/ CalculateSummaryStats

SpecStatus == InitStatus /\ [][NextStatus]_vars

\* The records of merged pull requests: state 'merged', or merged_at set.
MergedRecords ==
    {k \in 1..Len(s_prs.value) :
        s_prs.value[k].state = "merged" \/ s_prs.value[k].merged_at # 0}

\* C29: every record built for a merged pull request (state 'merged', or
\* merged_at set) has status 'merged', so calculate_summary_stats counts it
\* in merged_prs and not in open_prs.
C29_MergedHasStatusMerged ==
    /\ s_prs.computed =>
           \A k \in MergedRecords : Status(s_prs.value[k]) = "merged"
    /\ (s_stats.computed /\ ~s_stats.empty) =>
           /\ s_stats.merged_prs >= Cardinality(MergedRecords)
           /\ s_stats.open_prs <= Len(s_prs.value) - Cardinality(MergedRecords)

\* -------------------------------------------------------------------
\* The three status counts of an AnalysisResult (pr_analyser/models.py)
\* -------------------------------------------------------------------

\* C30: for every result whose PRs have raw state 'open' or 'closed' and
\* any value of the merged flag, merged_prs + open_prs + closed_prs is the
\* number of pull requests: each PR is counted in exactly one of the three.
C30_CountsPartition ==
    props.computed =>
        /\ props.merged_prs + props.open_prs + props.closed_prs = Len(m_prs)
        /\ \A k \in 1..Len(m_prs) :
               Cardinality({c \in {"merged", "open", "closed"} :
                   \/ c = "merged" /\ CountedMerged(m_prs[k])
                   \/ c = "open" /\ m_prs[k].state = "open"
                   \/ c = "closed" /\ CountedClosed(m_prs[k])}) = 1

\* The same for the results in which only closed PRs are merged.
C30_CountsPartitionWhenMergedIsClosed ==
    (props.computed
     /\ \A k \in 1..Len(m_prs) : m_prs[k].merged => m_prs[k].state = "closed")
        => props.merged_prs + props.open_prs + props.closed_prs = Len(m_prs)

====
